---- MODULE Spec2Model ----
(***************************************************************************)
(* Polykit: dependency graph, level-parallel task runner and two-tier      *)
(* task cache, modelled from polykit-core.                                 *)
(***************************************************************************)
EXTENDS Integers, Sequences, FiniteSets, TLC

(***************************************************************************)
(* Bounds and universes                                                    *)
(***************************************************************************)
\* longest deps list of a package
MaxDeps == 2

\* package names, in the order the packages are handed to DependencyGraph::new
PkgNames == <<"a", "b", "c">>

\* a dependency name that is not a package of the workspace
UnknownDep == "x"

NoGraph == [status |-> "none"]

(***************************************************************************)
(* Sequence helpers                                                        *)
(***************************************************************************)
Range(s) == {s[i] : i \in 1..Len(s)}

Reverse(s) == [i \in 1..Len(s) |-> s[Len(s) + 1 - i]]

Last(s) == s[Len(s)]

Front(s) == SubSeq(s, 1, Len(s) - 1)

IndexOf(s, x) == CHOOSE i \in 1..Len(s) : s[i] = x

NoDup(s) == \A i, j \in 1..Len(s) : s[i] = s[j] => i = j

\* sequences over S of length n without repeated elements
RECURSIVE DistinctSeqs(_, _)
DistinctSeqs(S, n) ==
  IF n = 0 THEN {<<>>}
  ELSE UNION {{Append(s, x) : x \in S \ Range(s)} : s \in DistinctSeqs(S, n - 1)}

RECURSIVE DistinctSeqsUpTo(_, _)
DistinctSeqsUpTo(S, n) ==
  IF n = 0 THEN {<<>>} ELSE DistinctSeqs(S, n) \cup DistinctSeqsUpTo(S, n - 1)

Max(S) == CHOOSE m \in S : \A x \in S : x <= m

VARIABLES
  packages,   \* Vec<Package> handed to DependencyGraph::new: [name, deps]
  graph       \* the Result of DependencyGraph::new, or NoGraph before the call

gvars == <<packages, graph>>

\* TaskRunner::run_task / run_task_streaming
VARIABLES
  mode,          \* "idle", "single", "sync" (run_task), "streaming", "done"
  max_parallel,  \* threads of the rayon pool built by run_task
  packages_set,  \* names of packages_to_run
  cur_level,     \* index of the level being processed (0 before the first)
  level_packages,\* the packages of that level that are in packages_set, in level order
  status,        \* per package: "idle", "pending", "running", "success", "failure", "hit", "error"
  spawned,       \* packages for which a process was spawned
  results,       \* the Vec<TaskResult> collected so far: [package_name, success]
  outcome        \* what the call returned: "none", "ok", "err"

rvars == <<mode, max_parallel, packages_set, cur_level, level_packages, status, spawned,
           results, outcome>>

\* TaskRunner::execute_task for one package, with its two caches
VARIABLES
  tasks,         \* Package.tasks: task name -> [command, depends_on]
  remote_on,     \* a remote cache is configured and enabled
  local_on,      \* a local TaskCache is configured
  inputs,        \* what the fingerprint reads besides package, task and command:
                 \* env values, input file hashes, toolchain version
  local_cache,   \* the TaskCache directory: cache key -> entry file
  remote_store,  \* the remote backend: fingerprint -> artifact
  pc,            \* "idle", "loop" (inside execute_task_with_deps), "done"
  target,        \* the task_name execute_task was called with
  task_order,    \* the order computed by build_task_dependency_order
  idx,           \* position in task_order of the next task to execute
  executed,      \* tasks handed to execute_task_internal, in order
  exec_results,  \* the results pushed by execute_task_with_deps
  ret,           \* what execute_task returned
  last_call      \* what the last execute_task_internal did

\* the cache server: Storage and the three HTTP handlers
VARIABLES
  files,        \* cache key -> the artifact file <shard>/<key>.zst
  sidecars,     \* cache key -> the metadata file <shard>/<key>.json
  temp_files,   \* the requests whose file under tmp/ exists
  requests,     \* client -> the request it has in flight and its answer
  overlap,      \* whether two requests may be in flight at once
  first_stored, \* cache key -> the payload of the first store that returned Ok
  committed,    \* cache key -> the payload first renamed into place
  stores_ok     \* cache key -> how many stores returned Ok (counted up to 2)

svars == <<files, sidecars, temp_files, requests, overlap, first_stored, committed,
           stores_ok>>

\* CacheKeyBuilder (remote_cache/cache_key.rs): the builders under
\* construction and the hash() of the keys built from them
VARIABLES
  builders,
  key_hash

kvars == <<builders, key_hash>>

\* RemoteCache::build_cache_key on two graphs
VARIABLES
  dep_graphs,   \* the two DependencyGraphs
  dep_package,  \* the package the keys are built for
  dep_keys      \* the CacheKey built on each graph

dvars == <<dep_graphs, dep_package, dep_keys>>

\* remote_cache/artifact.rs and integrity.rs: one artifact from its creation
\* to its extraction on the reading side
VARIABLES
  art_input,    \* the arguments Artifact::new was called with
  art_created,  \* the Artifact it returned
  art_data,     \* the compressed bytes as the reader gets them
  art_tampers,  \* how often the bytes were changed on the way
  art_parsed,   \* what Artifact::from_compressed returned
  art_verify,   \* what ArtifactVerifier::verify returned
  art_tree      \* the directory extract_outputs wrote to

tvars == <<art_input, art_created, art_data, art_tampers, art_parsed, art_verify, art_tree>>

\* StreamingTask::stream_output (streaming.rs)
VARIABLES
  script,       \* the chunks the process has still to write, per stream
  written,      \* the bytes the process has written, per stream
  exited,       \* the process has exited and closed its ends of the pipes
  pipe,         \* the bytes written and not yet taken by read_line, per stream
  line_buf,     \* what the pending read_line of this turn has taken so far
  stream_done,  \* stdout_done / stderr_done
  exit_status,  \* Some(status) after child.wait() completed
  sink,         \* the calls of on_line: <<line, is_stderr>>
  stream_ret    \* TRUE after stream_output returned

stvars == <<script, written, exited, pipe, line_buf, stream_done, exit_status, sink,
            stream_ret>>

\* one call of CommandValidator::validate
VARIABLES
  v_allow_shell,  \* the validator's allow_shell
  v_command,      \* the command handed to validate
  v_result        \* "ok" or "err" after the call

vvars == <<v_allow_shell, v_command, v_result>>

\* HttpBackend::retry around one operation (remote_cache/http.rs)
VARIABLES
  http_op,      \* "upload", "fetch" or "has", "" before the call
  http_pc,      \* "idle", "attempt", "sleep" or "done"
  attempt,      \* the loop variable of retry
  delay,        \* the next wait in milliseconds
  last_error,   \* the error of the last attempt, "" if none
  http_requests,     \* the outcome of each request sent
  sleeps,       \* the waits made, in milliseconds
  http_ret      \* what the operation returned

hvars == <<http_op, http_pc, attempt, delay, last_error, http_requests, sleeps, http_ret>>

\* the scan cache (cache.rs) and Scanner::scan (scanner.rs)
VARIABLES
  workspace,         \* the workspace: per package directory its mtimes, or NoDir
  clock,        \* the clock of the file system, in seconds
  snapshot,   \* the file scan_<key>.bin
  seen,       \* the workspace and the file as the last scan found them, and
              \* the file as it left it
  load_ret,   \* what the last Cache::load returned
  scan_ret    \* what the last Scanner::scan returned

cvars == <<workspace, clock, snapshot, seen, load_ret, scan_ret>>

\* DependencyGraph::update_incremental and all_dependents
VARIABLES
  dgraph,       \* the DependencyGraph struct: petgraph nodes and edges, the maps,
                \* the cached order and levels, the transitive_deps_cache
  reference,    \* the package set the caller holds: name -> deps
  last_update,  \* the last update_incremental call: the change, the graph and
                \* the package set before it, and what it returned
  updates,      \* number of update_incremental calls made
  ad_ret        \* the last all_dependents call: its argument, what it returned,
                \* and the transitive dependents in the edges at that moment

ivars == <<dgraph, reference, last_update, updates, ad_ret>>

\* one package's task through run_task and through run_task_streaming
VARIABLES
  rt_tasks,     \* Package.tasks: task name -> [command, depends_on]
  rt_strict,    \* the runner was given CommandValidator::strict()
  rt_exit,      \* command -> whether its process exits with success
  rt_entry,     \* "none", "run_task" or "run_task_streaming"
  rt_task,      \* the task that was asked for
  rt_pc,        \* "idle", "running" (the child runs), "finished" (the spawned
                \* tokio task returned), "done" (the call returned)
  rt_spawned,   \* the commands given to `sh -c`, in order
  rt_ret,       \* what the call returned
  rt_stdout,    \* lines pushed to the TaskResult's stdout by the callback
  rt_channel,   \* lines sent on the mpsc channel and not yet received
  rt_sink,      \* lines on_output was called with
  rt_forwarder  \* output_task: "none", "running", "ended" or "aborted"

mvars == <<rt_tasks, rt_strict, rt_exit, rt_entry, rt_task, rt_pc, rt_spawned, rt_ret,
           rt_stdout, rt_channel, rt_sink, rt_forwarder>>

\* FilesystemBackend: the files of one cache key and the calls in flight
VARIABLES
  fs_inodes,    \* the content of every file created so far, by inode number
  fs_tmp,       \* the inode the name <key>.tmp refers to, 0 when absent
  fs_dst,       \* the inode the name <key>.zst refers to, 0 when absent
  up_pc,        \* where each upload_artifact call stands
  up_fd,        \* the inode each upload's open file refers to
  up_off,       \* the position of each upload's open file
  up_ret,       \* what each upload_artifact call returned
  fe_pc,        \* where the fetch_artifact call stands
  fe_ret        \* what the fetch_artifact call returned

fvars == <<fs_inodes, fs_tmp, fs_dst, up_pc, up_fd, up_off, up_ret, fe_pc, fe_ret>>

\* TaskRunner::check_remote_cache against a backend that holds artifacts
VARIABLES
  lk_store,     \* the bytes the backend holds under each cache key
  lk_ret,       \* what the last check_remote_cache returned
  lk_dir        \* the files extracted into the package directory

lvars == <<lk_store, lk_ret, lk_dir>>

\* the content the scanner reads, for scans of a workspace that is edited
VARIABLES
  descriptor,   \* the text of each package's polykit.toml, as a revision
  ws_tasks,     \* the [workspace.tasks] of the workspace's polykit.toml, as a revision
  rescan        \* the last scan: what it returned and what scan_internal gives

wvars == <<descriptor, ws_tasks, rescan>>

\* DependencyGraph::affected_packages
VARIABLES
  changed_packages, \* the argument of the call
  affected,         \* the DashSet shared by the rayon workers
  workers,          \* one closure of par_iter().for_each per changed package
  affected_ret      \* what the call returned

avars == <<changed_packages, affected, workers, affected_ret>>

evars == <<tasks, remote_on, local_on, inputs, local_cache, remote_store, pc, target,
           task_order, idx, executed, exec_results, ret, last_call>>

(***************************************************************************)
(* petgraph: DiGraph adjacency and algo::toposort                          *)
(* Nodes are 1..n (node index = package id + 1); edges is the sequence of  *)
(* <<from, to>> in add_edge order.  A node's adjacency list is walked from *)
(* the most recently added edge to the oldest.                             *)
(***************************************************************************)
RECURSIVE OutNbrs(_, _)
OutNbrs(edges, n) ==
  IF edges = <<>> THEN <<>>
  ELSE IF Last(edges)[1] = n
       THEN <<Last(edges)[2]>> \o OutNbrs(Front(edges), n)
       ELSE OutNbrs(Front(edges), n)

RECURSIVE InNbrs(_, _)
InNbrs(edges, n) ==
  IF edges = <<>> THEN <<>>
  ELSE IF Last(edges)[2] = n
       THEN <<Last(edges)[1]>> \o InNbrs(Front(edges), n)
       ELSE InNbrs(Front(edges), n)

\* the inner `while let Some(&nx) = dfs.stack.last()` loop of toposort
RECURSIVE DfsFinish(_, _, _, _, _)
DfsFinish(edges, stack, disc, fin, fstack) ==
  IF stack = <<>> THEN [cycle |-> 0, disc |-> disc, fin |-> fin, fstack |-> fstack]
  ELSE LET nx == Last(stack) IN
       IF nx \notin disc
       THEN LET succs == OutNbrs(edges, nx)
                disc2 == disc \cup {nx}
            IN IF nx \in Range(succs)
               THEN [cycle |-> nx, disc |-> disc2, fin |-> fin, fstack |-> fstack]
               ELSE DfsFinish(edges,
                              stack \o SelectSeq(succs, LAMBDA s : s \notin disc2),
                              disc2, fin, fstack)
       ELSE IF nx \notin fin
            THEN DfsFinish(edges, Front(stack), disc, fin \cup {nx}, Append(fstack, nx))
            ELSE DfsFinish(edges, Front(stack), disc, fin, fstack)

\* `for i in g.node_identifiers().rev()`
RECURSIVE FinishOrder(_, _, _, _, _)
FinishOrder(edges, i, disc, fin, fstack) ==
  IF i = 0 THEN [cycle |-> 0, fstack |-> fstack]
  ELSE IF i \in disc THEN FinishOrder(edges, i - 1, disc, fin, fstack)
  ELSE LET r == DfsFinish(edges, <<i>>, disc, fin, fstack) IN
       IF r.cycle # 0 THEN [cycle |-> r.cycle, fstack |-> r.fstack]
       ELSE FinishOrder(edges, i - 1, r.disc, r.fin, r.fstack)

\* the second loop of toposort: a reversed-graph Dfs from each node of the
\* order; a second node reached from one start is reported as the cycle
RECURSIVE CycleCheck(_, _, _, _)
CycleCheck(edges, order, k, disc) ==
  IF k > Len(order) THEN 0
  ELSE LET i == order[k] IN
       IF i \in disc THEN CycleCheck(edges, order, k + 1, disc)
       ELSE LET disc2 == disc \cup {i}
                pushed == SelectSeq(InNbrs(edges, i), LAMBDA s : s \notin disc2)
            IN IF pushed # <<>> THEN Last(pushed)
               ELSE CycleCheck(edges, order, k + 1, disc2)

\* Ok(order) or Err(Cycle(node)); cycle = 0 means Ok
toposort(n, edges) ==
  LET p1 == FinishOrder(edges, n, {}, {}, <<>>) IN
  IF p1.cycle # 0 THEN [cycle |-> p1.cycle, sorted |-> <<>>]
  ELSE LET sorted == Reverse(p1.fstack)
           c == CycleCheck(edges, sorted, 1, {})
       IN IF c # 0 THEN [cycle |-> c, sorted |-> <<>>]
          ELSE [cycle |-> 0, sorted |-> sorted]

(***************************************************************************)
(* DependencyGraph::new                                                    *)
(***************************************************************************)
\* name_to_node: the node of a package name (a later package of the same
\* name replaces an earlier one in the map)
NameToNode(pkgs, name) ==
  Max({i \in 1..Len(pkgs) : pkgs[i].name = name})

NamesOf(pkgs) == {pkgs[i].name : i \in 1..Len(pkgs)}

HasName(pkgs, name) == \E i \in 1..Len(pkgs) : pkgs[i].name = name

\* third pass: the edges of packages[p..], deps[d..] of package p, or the
\* first dependency name that is no package
RECURSIVE AddEdges(_, _, _, _)
AddEdges(pkgs, p, d, edges) ==
  IF p > Len(pkgs) THEN [missing |-> "", edges |-> edges]
  ELSE IF d > Len(pkgs[p].deps) THEN AddEdges(pkgs, p + 1, 1, edges)
  ELSE LET dep == pkgs[p].deps[d] IN
       IF ~HasName(pkgs, dep) THEN [missing |-> dep, edges |-> edges]
       ELSE AddEdges(pkgs, p, d + 1,
                     Append(edges, <<NameToNode(pkgs, pkgs[p].name), NameToNode(pkgs, dep)>>))

\* levels[level].push(package_id), growing levels as needed
PushLevel(levels, level, id) ==
  LET grown == levels \o [i \in 1..(level + 1 - Len(levels)) |-> <<>>]
  IN [grown EXCEPT ![level + 1] = Append(@, id)]

\* mutant: the level of the deepest dependency itself, not the one above it
LevelOfDeps_SameLevel(edges, levelMap, id) ==
  LET depIds == OutNbrs(edges, id)
      known == {levelMap[d] : d \in Range(depIds) \cap DOMAIN levelMap}
  IN IF depIds = <<>> THEN 0
     ELSE IF known = {} THEN 0
     ELSE Max(known)

\* mutant: one above the lowest dependency, not the highest
LevelOfDeps_Min(edges, levelMap, id) ==
  LET depIds == OutNbrs(edges, id)
      known == {levelMap[d] : d \in Range(depIds) \cap DOMAIN levelMap}
  IN IF depIds = <<>> THEN 0
     ELSE IF known = {} THEN 0
     ELSE (CHOOSE l \in known : \A m \in known : l <= m) + 1

\* the `level` of one package: 0 without deps, else 1 + the highest level
\* among its deps already in level_map
LevelOfDeps(edges, levelMap, id) ==
  LET depIds == OutNbrs(edges, id)
      known == {levelMap[d] : d \in Range(depIds) \cap DOMAIN levelMap}
  IN IF depIds = <<>> THEN 0
     ELSE IF known = {} THEN 0
     ELSE Max(known) + 1

RECURSIVE LevelsFrom(_, _, _, _, _)
LevelsFrom(edges, order, k, levelMap, levels) ==
  IF k > Len(order) THEN levels
  ELSE LET id == order[k]
           level == LevelOfDeps(edges, levelMap, id)
       IN LevelsFrom(edges, order, k + 1,
                     [x \in DOMAIN levelMap \cup {id} |->
                        IF x = id THEN level ELSE levelMap[x]],
                     PushLevel(levels, level, id))

compute_dependency_levels_compact(edges, order) ==
  LevelsFrom(edges, order, 1, <<>>, <<>>)

IdsToNames(pkgs, ids) == [i \in 1..Len(ids) |-> pkgs[ids[i]].name]

\* mutant: the toposort result used as it comes (dependents first)
TopologicalOrderIds_NotReversed(sorted) == sorted

\* sorted.into_iter().rev(): dependencies first
TopologicalOrderIds(sorted) == Reverse(sorted)

\* mutant: the error names the first package of the list
CycleError_FirstPackage(pkgs, node) ==
  [status |-> "CircularDependency", name |-> pkgs[1].name]

\* map_err of toposort: the error names id_to_name[graph[cycle.node_id()]]
CycleError(pkgs, node) ==
  [status |-> "CircularDependency", name |-> pkgs[node].name]

DependencyGraph_new(pkgs) ==
  LET e == AddEdges(pkgs, 1, 1, <<>>) IN
  IF e.missing # ""
  THEN [status |-> "PackageNotFound", name |-> e.missing]
  ELSE LET t == toposort(Len(pkgs), e.edges) IN
       IF t.cycle # 0
       THEN CycleError(pkgs, t.cycle)
       ELSE LET order == TopologicalOrderIds(t.sorted)
                levels == compute_dependency_levels_compact(e.edges, order)
            IN [status |-> "ok",
                packages |-> pkgs,
                topological_order |-> IdsToNames(pkgs, order),
                dependency_levels |->
                  [l \in 1..Len(levels) |-> IdsToNames(pkgs, levels[l])]]

(***************************************************************************)
(* Graph construction as a state machine: the scanner's package list is    *)
(* built one descriptor at a time, then handed to DependencyGraph::new.    *)
(***************************************************************************)
DepNames == Range(PkgNames) \cup {UnknownDep}

DepLists == DistinctSeqsUpTo(DepNames, MaxDeps)

GraphIdle == packages = <<>> /\ graph = NoGraph

\* the scanner yields the next package descriptor
AddPackage ==
  /\ graph = NoGraph
  /\ Len(packages) < Len(PkgNames)
  /\ \E deps \in DepLists :
       packages' = Append(packages, [name |-> PkgNames[Len(packages) + 1], deps |-> deps])
  /\ UNCHANGED graph

\* DependencyGraph::new(packages)
New ==
  /\ graph = NoGraph
  /\ graph' = DependencyGraph_new(packages)
  /\ UNCHANGED packages

(***************************************************************************)
(* TaskRunner::run_task and run_task_streaming                             *)
(***************************************************************************)
\* largest max_parallel tried
MaxParallel == 2

AllNames == Range(PkgNames)

RunnerIdle ==
  /\ mode = "idle"
  /\ max_parallel = 1
  /\ packages_set = {}
  /\ cur_level = 0
  /\ level_packages = <<>>
  /\ status = [p \in AllNames |-> "idle"]
  /\ spawned = {}
  /\ results = <<>>
  /\ outcome = "none"

Running == {p \in AllNames : status[p] = "running"}

Returned(p) == status[p] \in {"success", "failure", "hit", "error"}

\* level.iter().filter(|name| packages_set.contains(name))
FilterLevel(lv, set) == SelectSeq(lv, LAMBDA n : n \in set)

\* the `continue` on an empty level: the first level after `from` that has a
\* package of packages_set, or 0 when the loop is over
RECURSIVE NextLevelIndex(_, _, _)
NextLevelIndex(levels, from, set) ==
  IF from + 1 > Len(levels) THEN 0
  ELSE IF FilterLevel(levels[from + 1], set) # <<>> THEN from + 1
  ELSE NextLevelIndex(levels, from + 1, set)

TaskResultOf(p) == [package_name |-> p, success |-> status[p] # "failure"]

LevelResults == [i \in 1..Len(level_packages) |-> TaskResultOf(level_packages[i])]

\* the loop starts the level at index lv, or returns Ok(results) when lv = 0
EnterLevel(lv, set) ==
  IF lv = 0
  THEN /\ mode' = "done"
       /\ outcome' = "ok"
       /\ level_packages' = <<>>
       /\ UNCHANGED <<cur_level, status>>
  ELSE /\ cur_level' = lv
       /\ level_packages' = FilterLevel(graph.dependency_levels[lv], set)
       /\ status' = [p \in AllNames |->
                       IF p \in Range(FilterLevel(graph.dependency_levels[lv], set))
                       THEN "pending" ELSE status[p]]
       /\ UNCHANGED <<mode, outcome>>

\* package_names: Option<&[String]>
None == [some |-> FALSE, names |-> {}]

Some(S) == [some |-> TRUE, names |-> S]

\* run_task(task_name, package_names) up to its first level
run_task(package_names, threads) ==
  /\ graph.status = "ok"
  /\ mode = "idle"
  /\ max_parallel' = threads
  /\ UNCHANGED <<spawned, results>>
  /\ IF package_names.some /\ package_names.names = {}
     THEN /\ mode' = "done" /\ outcome' = "ok"
          /\ UNCHANGED <<packages_set, cur_level, level_packages, status>>
     ELSE IF /\ package_names.some
             /\ Cardinality(package_names.names) = 1
             /\ package_names.names \subseteq NamesOf(packages)
     THEN /\ mode' = "single"
          /\ packages_set' = package_names.names
          /\ level_packages' = <<CHOOSE n \in package_names.names : TRUE>>
          /\ status' = [p \in AllNames |->
                          IF p \in package_names.names THEN "pending" ELSE status[p]]
          /\ UNCHANGED <<cur_level, outcome>>
     ELSE LET set == IF package_names.some
                     THEN package_names.names \cap NamesOf(packages)
                     ELSE NamesOf(packages)
          IN /\ packages_set' = set
             /\ IF set = {}
                THEN /\ mode' = "done" /\ outcome' = "ok"
                     /\ UNCHANGED <<cur_level, level_packages, status>>
                ELSE /\ mode' = "sync"
                     /\ outcome' = "none"
                     /\ LET lv == NextLevelIndex(graph.dependency_levels, 0, set) IN
                        /\ cur_level' = lv
                        /\ level_packages' = FilterLevel(graph.dependency_levels[lv], set)
                        /\ status' = [p \in AllNames |->
                              IF p \in Range(FilterLevel(graph.dependency_levels[lv], set))
                              THEN "pending" ELSE status[p]]

\* run_task_streaming(task_name, package_names, on_output) up to its first
\* level, on a runner configured with max_parallel = threads (which it
\* never reads)
run_task_streaming(package_names, threads) ==
  /\ graph.status = "ok"
  /\ mode = "idle"
  /\ max_parallel' = threads
  /\ UNCHANGED <<spawned, results>>
  /\ LET set == IF package_names.some
                THEN package_names.names \cap NamesOf(packages)
                ELSE NamesOf(packages)
     IN /\ packages_set' = set
        /\ IF set = {}
           THEN /\ mode' = "done" /\ outcome' = "ok"
                /\ UNCHANGED <<cur_level, level_packages, status>>
           ELSE /\ mode' = "streaming"
                /\ outcome' = "none"
                /\ LET lv == NextLevelIndex(graph.dependency_levels, 0, set) IN
                   /\ cur_level' = lv
                   /\ level_packages' = FilterLevel(graph.dependency_levels[lv], set)
                   /\ status' = [p \in AllNames |->
                         IF p \in Range(FilterLevel(graph.dependency_levels[lv], set))
                         THEN "pending" ELSE status[p]]

\* a pool thread (run_task) or a spawned tokio task (run_task_streaming)
\* takes a package of the level: the task is answered from a cache, fails
\* before any process exists, or its process is spawned
StartTask(p) ==
  /\ mode \in {"single", "sync", "streaming"}
  /\ status[p] = "pending"
  /\ mode = "sync" => Cardinality(Running) < max_parallel
  /\ \E how \in {"spawn", "hit", "error"} :
       /\ how = "hit" => mode # "streaming"
       /\ status' = [status EXCEPT ![p] =
                       IF how = "spawn" THEN "running" ELSE how]
       /\ spawned' = IF how = "spawn" THEN spawned \cup {p} ELSE spawned
  /\ UNCHANGED <<mode, max_parallel, packages_set, cur_level, level_packages, results, outcome>>

\* the process of p exits; its task returns Ok(TaskResult) or, when reading
\* the output or waiting failed, Err
ExitTask(p) ==
  /\ status[p] = "running"
  /\ \E r \in {"success", "failure", "error"} :
       status' = [status EXCEPT ![p] = r]
  /\ UNCHANGED <<mode, max_parallel, packages_set, cur_level, level_packages, spawned,
                 results, outcome>>

\* run_task with a single existing package: execute_task(package)? returned
SingleReturn ==
  /\ mode = "single"
  /\ Returned(level_packages[1])
  /\ mode' = "done"
  /\ IF status[level_packages[1]] = "error"
     THEN outcome' = "err" /\ UNCHANGED results
     ELSE outcome' = "ok" /\ results' = LevelResults
  /\ UNCHANGED <<max_parallel, packages_set, cur_level, level_packages, status, spawned>>

\* mutant: the level is left while tasks of it are still running
LevelDrained_NoWait ==
  \A i \in 1..Len(level_packages) : status[level_packages[i]] # "pending"

\* pool.install returns: every started task of the level has returned, and
\* every package of the level was started unless an Err stopped the collect
LevelDrained ==
  /\ Running = {}
  /\ \/ \A i \in 1..Len(level_packages) : Returned(level_packages[i])
     \/ \E i \in 1..Len(level_packages) : status[level_packages[i]] = "error"

\* run_task: `level_results?`, then the next level or Ok(results)
LevelEnd ==
  /\ mode = "sync"
  /\ LevelDrained
  /\ UNCHANGED <<max_parallel, packages_set, spawned>>
  /\ IF \E i \in 1..Len(level_packages) : status[level_packages[i]] = "error"
     THEN /\ mode' = "done" /\ outcome' = "err"
          /\ UNCHANGED <<cur_level, level_packages, status, results>>
     ELSE /\ results' = results \o LevelResults
          /\ EnterLevel(NextLevelIndex(graph.dependency_levels, cur_level, packages_set),
                        packages_set)

\* run_task_streaming: every handle of the level was awaited and gave
\* Ok(Ok(result)); output_task.abort(), then the next level or Ok(results)
StreamLevelEnd ==
  /\ mode = "streaming"
  /\ outcome = "none"
  /\ \A i \in 1..Len(level_packages) :
       status[level_packages[i]] \in {"success", "failure"}
  /\ results' = results \o LevelResults
  /\ EnterLevel(NextLevelIndex(graph.dependency_levels, cur_level, packages_set),
                packages_set)
  /\ UNCHANGED <<max_parallel, packages_set, spawned>>

\* run_task_streaming: the handles are awaited in order; the first one that
\* gives Err makes the call return Err while later tasks may still run
StreamReturnErr ==
  /\ mode = "streaming"
  /\ outcome = "none"
  /\ \E k \in 1..Len(level_packages) :
       /\ status[level_packages[k]] = "error"
       /\ \A j \in 1..(k - 1) : status[level_packages[j]] \in {"success", "failure"}
       /\ results' = results \o SubSeq(LevelResults, 1, k - 1)
  /\ outcome' = "err"
  /\ UNCHANGED <<mode, max_parallel, packages_set, cur_level, level_packages, status, spawned>>

(***************************************************************************)
(* CommandValidator::validate                                              *)
(* A command is a sequence of characters; "LF", "CR", "NUL" and "BACKTICK" *)
(* stand for the characters TLA+ strings cannot hold.                      *)
(***************************************************************************)
MaxCommandLen == 10000

Whitespace == {" ", "LF", "CR"}

RECURSIVE TrimStart(_)
TrimStart(c) ==
  IF c # <<>> /\ Head(c) \in Whitespace THEN TrimStart(Tail(c)) ELSE c

RECURSIVE TrimEnd(_)
TrimEnd(c) ==
  IF c # <<>> /\ Last(c) \in Whitespace THEN TrimEnd(Front(c)) ELSE c

Trim(c) == TrimEnd(TrimStart(c))

Contains(c, ch) == ch \in Range(c)

ContainsPair(c, x, y) == \E i \in 1..(Len(c) - 1) : c[i] = x /\ c[i + 1] = y

\* TRUE iff validate returns Ok(())
validate(allow_shell, command) ==
  /\ Trim(command) # <<>>
  /\ Len(command) <= MaxCommandLen
  /\ ~Contains(command, "NUL")
  /\ (ContainsPair(command, "CR", "LF") \/ Contains(command, "LF"))
       => ~Contains(Trim(command), "LF")
  /\ ~allow_shell =>
       ~(\/ Contains(command, ";")
         \/ ContainsPair(command, "&", "&")
         \/ ContainsPair(command, "|", "|")
         \/ Contains(command, "|")
         \/ Contains(command, "BACKTICK")
         \/ Contains(command, "$"))

(***************************************************************************)
(* TaskCache (local task cache)                                            *)
(***************************************************************************)
\* entries below this many bytes are written with LZ4, others with zstd;
\* files below this many bytes are read with LZ4, others with zstd
CodecThreshold == 1024

\* what a task printed, by how it serialises and compresses
Outputs == {"short", "long_repetitive", "long_random"}

\* bincode::serialize(&entry).len()
SerializedLen(out) == IF out = "short" THEN 200 ELSE 4000

\* length of the file written for an entry by the given codec
CompressedLen(codec, out) ==
  IF out = "short" THEN 150
  ELSE IF out = "long_repetitive" THEN 90
  ELSE 4100

NoEntry == [present |-> FALSE]

\* TaskCache::cache_key: the file name is made of the package name, the
\* task name and a hash of package name, task name and command
cache_key(package_name, task_name, command) == <<package_name, task_name, command>>

\* the codec TaskCache::put writes with
PutCodec(out) == IF SerializedLen(out) < CodecThreshold THEN "lz4" ELSE "zstd"

\* the codec TaskCache::get reads a file with
GetCodec(file_len) == IF file_len < CodecThreshold THEN "lz4" ELSE "zstd"

\* TaskCache::get: "miss", "io_error", "decode_error" or "hit"
TaskCacheGet(cache, package_name, task_name, command, read_ok) ==
  LET e == cache[cache_key(package_name, task_name, command)] IN
  IF ~e.present THEN "miss"
  ELSE IF ~read_ok THEN "io_error"
  ELSE IF GetCodec(e.file_len) # e.codec THEN "decode_error"
  ELSE IF \/ e.package_name # package_name
          \/ e.task_name # task_name
          \/ e.command # command
       THEN "miss"
  ELSE "hit"

\* the file TaskCache::put writes for a result
EntryOf(package_name, task_name, command, result) ==
  [present |-> TRUE,
   codec |-> PutCodec(result.out),
   file_len |-> CompressedLen(PutCodec(result.out), result.out),
   package_name |-> package_name,
   task_name |-> task_name,
   command |-> command,
   success |-> result.success,
   out |-> result.out,
   inputs |-> result.inputs]

\* mutant: results of failed runs are stored too
TaskCachePut_AnyResult(cache, package_name, task_name, command, result, write) ==
  LET k == cache_key(package_name, task_name, command) IN
  IF write = "ok"
  THEN [cache EXCEPT ![k] = EntryOf(package_name, task_name, command, result)]
  ELSE cache

\* TaskCache::put: nothing for a failed result; a write that fails leaves
\* the directory as it was
TaskCachePut(cache, package_name, task_name, command, result, write) ==
  LET k == cache_key(package_name, task_name, command) IN
  IF ~result.success THEN cache
  ELSE IF write = "ok"
  THEN [cache EXCEPT ![k] = EntryOf(package_name, task_name, command, result)]
  ELSE cache

\* the TaskResult TaskCache::get builds from an entry
ResultOfEntry(e) ==
  [task_name |-> e.task_name, success |-> e.success, out |-> e.out,
   source |-> "local", inputs |-> e.inputs]

(***************************************************************************)
(* Remote cache                                                            *)
(***************************************************************************)
NoArtifact == [present |-> FALSE]

\* RemoteCache::build_cache_key: the fingerprint of a task invocation
build_cache_key(package_name, task_name, command, inp) ==
  <<package_name, task_name, command, inp>>

\* check_remote_cache: "off" when no remote cache is configured, else
\* "key_error", "net_error", "miss", "parse_error", "verify_error",
\* "extract_error" or "hit"
check_remote_cache(store, on, package_name, task_name, command, inp, nd) ==
  IF ~on THEN "off"
  ELSE IF ~nd.key_ok THEN "key_error"
  ELSE IF nd.fetch = "net_error" THEN "net_error"
  ELSE IF ~store[build_cache_key(package_name, task_name, command, inp)].present
       THEN "miss"
  ELSE IF nd.fetch = "unparsable" THEN "parse_error"
  ELSE IF nd.fetch = "tampered" THEN "verify_error"
  ELSE IF ~nd.extract_ok THEN "extract_error"
  ELSE "hit"

RemoteErrors == {"key_error", "net_error", "parse_error", "verify_error", "extract_error"}

\* upload_to_remote_cache: errors are dropped
upload_to_remote_cache(store, package_name, task_name, command, inp, result, nd) ==
  IF ~nd.upload_ok THEN store
  ELSE [store EXCEPT ![build_cache_key(package_name, task_name, command, inp)] =
          [present |-> TRUE, success |-> result.success]]

(***************************************************************************)
(* TaskRunner::execute_task_internal                                       *)
(***************************************************************************)
PackageName == "a"

\* what the toolchain probe, the network and the extraction do during one
\* remote lookup
RemoteChances ==
  {[key_ok |-> FALSE, fetch |-> "ok", extract_ok |-> TRUE]}
    \cup {[key_ok |-> TRUE, fetch |-> f, extract_ok |-> TRUE] :
            f \in {"ok", "net_error", "unparsable", "tampered"}}
    \cup {[key_ok |-> TRUE, fetch |-> "ok", extract_ok |-> FALSE]}

\* whether the entry file can be read
LocalChances == [read_ok : BOOLEAN]

\* what the process does, and whether the stores accept its result
RunChances ==
  [proc : {"success", "failure", "spawn_error"},
   out : Outputs,
   write : {"ok", "failed"},
   upload_ok : BOOLEAN]

Ok(result) == [kind |-> "ok", result |-> result]

Err(origin, task) == [kind |-> "err", origin |-> origin, task |-> task]

NoReturn == [kind |-> "none"]

\* mutant: a failed remote lookup is returned as the task's error
AfterRemote_Propagate(r) ==
  IF r = "hit" THEN "return" ELSE IF r \in RemoteErrors THEN "fail" ELSE "continue"

\* the match on check_remote_cache: only a hit returns
AfterRemote(r) == IF r = "hit" THEN "return" ELSE "continue"

\* `cache.get(...)?`: a hit returns, an Err is returned as the task's error
AfterLocal(l) ==
  IF l = "hit" THEN "return"
  ELSE IF l \in {"io_error", "decode_error"} THEN "fail"
  ELSE "continue"

\* `if result.success` before upload_to_remote_cache
ShouldUpload(result) == result.success

StartCtx(task) ==
  [task |-> task, finished |-> FALSE, ret |-> NoReturn, events |-> <<>>,
   remote |-> "skipped", local |-> "skipped", spawned |-> FALSE,
   local_cache |-> local_cache, remote_store |-> remote_store]

\* the remote stage: lines 371-383
RemoteStage(c, nd) ==
  LET cmd == tasks[c.task].command
      r == check_remote_cache(c.remote_store, remote_on, PackageName, c.task, cmd, inputs, nd)
      c1 == [c EXCEPT !.remote = r,
                      !.events = IF r = "off" THEN @ ELSE Append(@, "remote")]
  IN IF r = "off" THEN c1
     ELSE IF AfterRemote(r) = "return"
     THEN [c1 EXCEPT !.finished = TRUE,
                     !.ret = Ok([task_name |-> c.task, success |-> TRUE, out |-> "empty",
                                 source |-> "remote", inputs |-> inputs])]
     ELSE IF AfterRemote(r) = "fail"
     THEN [c1 EXCEPT !.finished = TRUE, !.ret = Err("remote_cache", c.task)]
     ELSE c1

\* the local stage: lines 385-389
LocalStage(c, nd) ==
  IF ~local_on THEN [c EXCEPT !.local = "off"]
  ELSE LET cmd == tasks[c.task].command
           l == TaskCacheGet(c.local_cache, PackageName, c.task, cmd, nd.read_ok)
           c1 == [c EXCEPT !.local = l, !.events = Append(@, "local")]
       IN IF AfterLocal(l) = "return"
          THEN [c1 EXCEPT !.finished = TRUE,
                  !.ret = Ok(ResultOfEntry(
                            c.local_cache[cache_key(PackageName, c.task, cmd)]))]
          ELSE IF AfterLocal(l) = "fail"
          THEN [c1 EXCEPT !.finished = TRUE, !.ret = Err("task_cache", c.task)]
          ELSE c1

\* validation, the process, and the publication of its result: lines 391-444
RunStage(c, nd) ==
  LET cmd == tasks[c.task].command IN
  IF ~validate(TRUE, cmd)
  THEN [c EXCEPT !.finished = TRUE, !.ret = Err("validation", c.task)]
  ELSE IF nd.proc = "spawn_error"
  THEN [c EXCEPT !.finished = TRUE, !.ret = Err("spawn", c.task),
                 !.events = Append(@, "spawn")]
  ELSE LET result == [task_name |-> c.task, success |-> nd.proc = "success",
                      out |-> nd.out, source |-> "run", inputs |-> inputs]
           lc == IF local_on
                 THEN TaskCachePut(c.local_cache, PackageName, c.task, cmd, result, nd.write)
                 ELSE c.local_cache
           rs == IF ShouldUpload(result) /\ remote_on
                 THEN upload_to_remote_cache(c.remote_store, PackageName, c.task, cmd,
                                             inputs, result, nd)
                 ELSE c.remote_store
       IN [c EXCEPT !.finished = TRUE, !.ret = Ok(result), !.spawned = TRUE,
                    !.events = Append(@, "spawn"),
                    !.local_cache = lc, !.remote_store = rs]

Stage(name, c, nd) ==
  IF name = "remote" THEN RemoteStage(c, nd)
  ELSE IF name = "local" THEN LocalStage(c, nd)
  ELSE RunStage(c, nd)

\* the chances a stage draws from; a stage that is switched off, or that
\* stops before the chance is read, draws nothing
StageChances(name, c) ==
  IF name = "remote"
  THEN IF remote_on THEN RemoteChances
       ELSE {[key_ok |-> TRUE, fetch |-> "ok", extract_ok |-> TRUE]}
  ELSE IF name = "local"
  THEN IF local_on /\ c.local_cache[cache_key(PackageName, c.task,
                                              tasks[c.task].command)].present
       THEN LocalChances
       ELSE {[read_ok |-> TRUE]}
  ELSE {nd \in RunChances :
          /\ (~validate(TRUE, tasks[c.task].command) \/ nd.proc = "spawn_error")
               => (nd.out = "short" /\ nd.proc = "spawn_error")
          /\ ~(local_on /\ nd.proc = "success") => nd.write = "ok"
          /\ ~(remote_on /\ nd.proc = "success") => nd.upload_ok}

\* mutant: the local cache is asked before the remote cache
Pipeline_LocalFirst == <<"local", "remote", "run">>

\* the order of the stages of execute_task_internal
Pipeline == <<"remote", "local", "run">>

\* the set of ways a call can end, one for each draw of the chances
RECURSIVE RunPipeline(_, _, _)
RunPipeline(stages, k, c) ==
  IF k > Len(stages) \/ c.finished THEN {c}
  ELSE UNION {RunPipeline(stages, k + 1, Stage(stages[k], c, nd)) :
                nd \in StageChances(stages[k], c)}

execute_task_internal(task) ==
  IF ~tasks[task].defined
  THEN {[StartCtx(task) EXCEPT !.finished = TRUE, !.ret = Err("not_found", task)]}
  ELSE RunPipeline(Pipeline, 1, StartCtx(task))

(***************************************************************************)
(* TaskRunner::build_task_dependency_order                                 *)
(***************************************************************************)
MaxTaskDeps == 2

TaskNames == {"build", "test", "lint"}

NoTask == [defined |-> FALSE, command |-> <<>>, depends_on |-> <<>>]

Task(command, depends_on) ==
  [defined |-> TRUE, command |-> command, depends_on |-> depends_on]

\* Package::get_task(name).is_some()
HasTask(tbl, t) == tbl[t].defined

NoError == [kind |-> "none"]

\* mutant: a task is put before the tasks it depends on
PushTask_Front(order, t) == <<t>> \o order

\* `order.push(task_name.to_string())`
PushTask(order, t) == Append(order, t)

RECURSIVE visit_task(_, _, _)
RECURSIVE VisitDeps(_, _, _, _)

\* the nested fn visit_task; st holds order, visited, visiting and the
\* error that `?` carries out of the recursion
visit_task(tbl, t, st) ==
  IF t \in st.visiting THEN [st EXCEPT !.err = Err("cycle", t)]
  ELSE IF t \in st.visited THEN st
  ELSE IF ~HasTask(tbl, t)
  THEN [st EXCEPT !.visiting = @ \cup {t}, !.err = Err("not_found", t)]
  ELSE LET s1 == VisitDeps(tbl, tbl[t].depends_on, 1,
                           [st EXCEPT !.visiting = @ \cup {t}])
       IN IF s1.err.kind # "none" THEN s1
          ELSE [s1 EXCEPT !.visiting = @ \ {t},
                          !.visited = @ \cup {t},
                          !.order = PushTask(@, t)]

\* `for dep in &task.depends_on { visit_task(...)? }`
VisitDeps(tbl, deps, i, st) ==
  IF i > Len(deps) \/ st.err.kind # "none" THEN st
  ELSE VisitDeps(tbl, deps, i + 1, visit_task(tbl, deps[i], st))

\* [err, order]: Err when err.kind # "none", else Ok(order)
build_task_dependency_order(tbl, task_name) ==
  LET st0 == [order |-> <<>>, visited |-> {}, visiting |-> {}, err |-> NoError] IN
  IF ~HasTask(tbl, task_name)
  THEN [st0 EXCEPT !.err = Err("not_found", task_name)]
  ELSE visit_task(tbl, task_name, st0)

(***************************************************************************)
(* TaskRunner::execute_task and execute_task_with_deps                     *)
(***************************************************************************)
Commands == {<<"m">>, <<"t">>, <<" ">>}

LocalKeys == {cache_key(PackageName, t, c) : t \in TaskNames, c \in Commands}

InputVersions == {"v1", "v2"}

RemoteKeys ==
  {build_cache_key(PackageName, t, c, i) : t \in TaskNames, c \in Commands,
                                           i \in InputVersions}

NoCall ==
  [task |-> "none", inputs |-> "none", remote |-> "skipped", local |-> "skipped",
   spawned |-> FALSE, events |-> <<>>, ret |-> NoReturn]

ExecIdle ==
  /\ pc = "idle"
  /\ target = "none"
  /\ task_order = <<>>
  /\ idx = 0
  /\ executed = <<>>
  /\ exec_results = <<>>
  /\ ret = NoReturn
  /\ last_call = NoCall

\* the executor is not in use
ExecOff ==
  /\ ExecIdle
  /\ tasks = [t \in TaskNames |-> NoTask]
  /\ remote_on = FALSE
  /\ local_on = FALSE
  /\ inputs = "v1"
  /\ local_cache = [k \in LocalKeys |-> NoEntry]
  /\ remote_store = [k \in RemoteKeys |-> NoArtifact]

\* `results.into_iter().find(|r| r.task_name == task_name).ok_or_else(..)`
RECURSIVE FindResult(_, _, _)
FindResult(rs, i, task_name) ==
  IF i > Len(rs) THEN Err("no_result", task_name)
  ELSE IF rs[i].task_name = task_name THEN Ok(rs[i])
  ELSE FindResult(rs, i + 1, task_name)

\* execute_task is called: the order is computed, or its error returned
ExecuteTask(t) ==
  /\ pc = "idle"
  /\ LET bo == build_task_dependency_order(tasks, t) IN
     /\ target' = t
     /\ IF bo.err.kind # "none"
        THEN /\ pc' = "done"
             /\ ret' = bo.err
             /\ task_order' = <<>>
             /\ idx' = 0
        ELSE /\ pc' = "loop"
             /\ ret' = NoReturn
             /\ task_order' = bo.order
             /\ idx' = 1
  /\ executed' = <<>>
  /\ exec_results' = <<>>
  /\ last_call' = NoCall
  /\ UNCHANGED <<tasks, remote_on, local_on, inputs, local_cache, remote_store>>

\* `if !success && task == task_name { return Ok(results) }`
StopsAfter(task, success) == ~success /\ task = target

\* one iteration of the loop of execute_task_with_deps, and the return of
\* execute_task when it was the last
LoopStep ==
  /\ pc = "loop"
  /\ \E c \in execute_task_internal(task_order[idx]) :
       LET task == task_order[idx]
       IN /\ executed' = Append(executed, task)
          /\ last_call' = [task |-> task, inputs |-> inputs, remote |-> c.remote,
                           local |-> c.local, spawned |-> c.spawned,
                           events |-> c.events, ret |-> c.ret]
          /\ local_cache' = c.local_cache
          /\ remote_store' = c.remote_store
          /\ IF c.ret.kind = "err"
             THEN /\ pc' = "done"
                  /\ ret' = c.ret
                  /\ UNCHANGED <<exec_results, idx>>
             ELSE LET rs == Append(exec_results, c.ret.result) IN
                  /\ exec_results' = rs
                  /\ IF StopsAfter(task, c.ret.result.success) \/ idx = Len(task_order)
                     THEN /\ pc' = "done"
                          /\ ret' = FindResult(rs, 1, target)
                          /\ idx' = idx
                     ELSE /\ pc' = "loop"
                          /\ ret' = ret
                          /\ idx' = idx + 1
  /\ UNCHANGED <<tasks, remote_on, local_on, inputs, target, task_order>>

\* the caller takes the result; the runner can be called again
Again ==
  /\ pc = "done"
  /\ pc' = "idle"
  /\ target' = "none"
  /\ task_order' = <<>>
  /\ idx' = 0
  /\ executed' = <<>>
  /\ exec_results' = <<>>
  /\ ret' = NoReturn
  /\ last_call' = NoCall
  /\ UNCHANGED <<tasks, remote_on, local_on, inputs, local_cache, remote_store>>

\* between two calls a source file, an allow-listed variable, a dependency
\* or the toolchain changes
ChangeInputs ==
  /\ pc = "idle"
  /\ \E i \in InputVersions \ {inputs} : inputs' = i
  /\ UNCHANGED <<tasks, remote_on, local_on, local_cache, remote_store, pc, target,
                 task_order, idx, executed, exec_results, ret, last_call>>

(***************************************************************************)
(* polykit-cache: Storage                                                  *)
(***************************************************************************)
\* the shortest key the handlers accept
MinKeyLen == 32

\* cache keys as the handlers see them: whether every character is a hex
\* digit, and the length
KeyA == [id |-> "a", hex |-> TRUE, len |-> 40]

KeyB == [id |-> "b", hex |-> TRUE, len |-> 40]

KeyShort == [id |-> "s", hex |-> TRUE, len |-> 8]

KeyNotHex == [id |-> "g", hex |-> FALSE, len |-> 40]

Keys == {KeyA, KeyB, KeyShort, KeyNotHex}

\* request bodies: the bytes, the cache_key_hash inside the artifact, whether
\* Artifact::from_compressed and ArtifactVerifier::verify accept them, and
\* whether they are longer than max_artifact_size
Payload(body, hash, parses, oversize) ==
  [body |-> body, cache_key_hash |-> hash, parses |-> parses, oversize |-> oversize]

PayloadP == Payload("p", "a", TRUE, FALSE)

PayloadQ == Payload("q", "a", TRUE, FALSE)

Unparsable == Payload("x", "a", FALSE, FALSE)

Oversize == Payload("y", "a", TRUE, TRUE)

NoFile == [present |-> FALSE]

File(data) == [present |-> TRUE, data |-> data]

\* Sha256 of the request body
Sha256(data) == <<"sha256", data.body, data.cache_key_hash>>

\* StorageMetadata written beside the artifact
StorageMetadata(data) ==
  [present |-> TRUE, hash |-> Sha256(data), cache_key_hash |-> data.cache_key_hash]

\* mutant: no artifact is ever found
has_artifact_Never(fs, k) == FALSE

\* Storage::has_artifact
has_artifact(fs, k) == fs[k].present

\* mutant: the existence check is skipped
StoreEntry_NoExistenceCheck(fs, k, data) ==
  IF ~k.hex THEN "invalid_key"
  ELSE IF data.oversize THEN "too_large"
  ELSE "proceed"

\* Storage::store_artifact up to its existence check (lines 105-131)
StoreEntry(fs, k, data) ==
  IF ~k.hex THEN "invalid_key"
  ELSE IF data.oversize THEN "too_large"
  ELSE IF has_artifact(fs, k) THEN "already_exists"
  ELSE "proceed"

\* Storage::read_artifact
read_artifact(fs, k) ==
  IF ~fs[k].present THEN [kind |-> "err"] ELSE [kind |-> "ok", data |-> fs[k].data]

\* Storage::read_metadata
read_metadata(sc, k) ==
  IF ~sc[k].present THEN [kind |-> "err"] ELSE [kind |-> "ok", metadata |-> sc[k]]

(***************************************************************************)
(* polykit-cache: Verifier::verify_upload and the handlers                 *)
(***************************************************************************)
\* mutant: the cache key inside the artifact is not compared with the URL
verify_upload_NoKeyCheck(data, expected_cache_key) ==
  IF data.oversize THEN "too_large"
  ELSE IF ~data.parses THEN "invalid_artifact"
  ELSE "ok"

\* Verifier::verify_upload: "ok" or the reason of the Err
verify_upload(data, expected_cache_key) ==
  IF data.oversize THEN "too_large"
  ELSE IF ~data.parses THEN "invalid_artifact"
  ELSE IF data.cache_key_hash # expected_cache_key.id THEN "key_mismatch"
  ELSE "ok"

\* `!cache_key.chars().all(|c| c.is_ascii_hexdigit()) || cache_key.len() < 32`
WellFormed(k) == k.hex /\ k.len >= MinKeyLen

\* upload_artifact up to the existence check of store_artifact: the status
\* it answers at once, or 0 when the store goes on
UploadEntry(fs, k, data) ==
  IF ~WellFormed(k) THEN 400
  ELSE IF data.oversize THEN 413
  ELSE IF verify_upload(data, k) # "ok" THEN 422
  ELSE IF StoreEntry(fs, k, data) = "already_exists" THEN 409
  ELSE IF StoreEntry(fs, k, data) # "proceed" THEN 500
  ELSE 0

\* download_artifact: the status and the X-Artifact-Hash header
download_artifact(fs, sc, k) ==
  IF ~WellFormed(k) THEN [status |-> 400]
  ELSE IF ~has_artifact(fs, k) THEN [status |-> 404]
  ELSE IF read_artifact(fs, k).kind = "err" THEN [status |-> 500]
  ELSE IF read_metadata(sc, k).kind = "err" THEN [status |-> 500]
  ELSE [status |-> 200, hash |-> read_metadata(sc, k).metadata.hash,
        body |-> read_artifact(fs, k).data]

\* check_artifact: the status and the X-Artifact-Hash header
check_artifact(fs, sc, k) ==
  IF ~WellFormed(k) THEN [status |-> 400]
  ELSE IF has_artifact(fs, k) /\ read_metadata(sc, k).kind = "ok"
  THEN [status |-> 200, hash |-> read_metadata(sc, k).metadata.hash]
  ELSE [status |-> 404]

(***************************************************************************)
(* polykit-cache: requests served by the tokio runtime                     *)
(***************************************************************************)
Clients == {"c1", "c2"}

IdleRequest ==
  [op |-> "none", pc |-> "idle", key |-> KeyA, data |-> PayloadP,
   result |-> "none", resp |-> [status |-> 0], existed |-> FALSE, after_ok |-> FALSE]

\* what store_artifact is called with directly
StoreInputs ==
  {<<KeyA, PayloadP>>, <<KeyA, PayloadQ>>, <<KeyA, Oversize>>, <<KeyNotHex, PayloadP>>}

\* what is PUT: good uploads, a key that is not the artifact's, bodies that
\* do not verify or are too long, and malformed keys
UploadInputs ==
  {<<KeyA, PayloadP>>, <<KeyA, PayloadQ>>, <<KeyB, PayloadP>>, <<KeyA, Unparsable>>,
   <<KeyA, Oversize>>, <<KeyB, Oversize>>, <<KeyShort, PayloadP>>,
   <<KeyNotHex, PayloadP>>}

\* the keys that are asked for
LookupKeys == {KeyA, KeyShort}

StorageEmpty ==
  /\ files = [k \in Keys |-> NoFile]
  /\ sidecars = [k \in Keys |-> NoFile]
  /\ temp_files = {}
  /\ requests = [c \in Clients |-> IdleRequest]
  /\ first_stored = [k \in Keys |-> NoFile]
  /\ committed = [k \in Keys |-> NoFile]
  /\ stores_ok = [k \in Keys |-> 0]

\* the cache server is not in use
ServerOff == StorageEmpty /\ overlap = FALSE

\* a request may start: requests overlap, or no other is in flight
MayStart(c) ==
  /\ requests[c].pc = "idle"
  /\ overlap \/ \A d \in Clients \ {c} : requests[d].pc \in {"idle", "done"}

\* the status upload_artifact answers for a result of store_artifact
StatusOfStore(result) ==
  IF result = "ok" THEN 201 ELSE IF result = "already_exists" THEN 409 ELSE 500

\* what a request answers when its store ends with result
Ended(r, result) ==
  [r EXCEPT !.pc = "done", !.result = result,
            !.resp = IF r.op = "PUT" THEN [status |-> StatusOfStore(result)] ELSE @]

\* store_artifact is called directly and runs up to its existence check
StoreArtifact(c, k, data) ==
  /\ MayStart(c)
  /\ LET e == StoreEntry(files, k, data)
         r == [IdleRequest EXCEPT !.op = "STORE", !.key = k, !.data = data,
                                  !.existed = files[k].present,
                                  !.after_ok = first_stored[k].present]
     IN requests' = [requests EXCEPT ![c] =
                       IF e = "proceed" THEN [r EXCEPT !.pc = "temp"] ELSE Ended(r, e)]
  /\ UNCHANGED <<files, sidecars, temp_files, overlap, first_stored, committed, stores_ok>>

\* PUT /v1/artifacts/{k}: upload_artifact up to the existence check
Upload(c, k, data) ==
  /\ MayStart(c)
  /\ LET st == UploadEntry(files, k, data)
         r == [IdleRequest EXCEPT !.op = "PUT", !.key = k, !.data = data,
                                  !.existed = files[k].present,
                                  !.after_ok = first_stored[k].present]
     IN requests' = [requests EXCEPT ![c] =
                       IF st = 0 THEN [r EXCEPT !.pc = "temp"]
                       ELSE [r EXCEPT !.pc = "done", !.result = "rejected",
                                      !.resp = [status |-> st]]]
  /\ UNCHANGED <<files, sidecars, temp_files, overlap, first_stored, committed, stores_ok>>

\* lines 133-139: the payload is written under tmp/ and the shard directory
\* is created
WriteTemp(c) ==
  /\ requests[c].pc = "temp"
  /\ \E how \in {"ok", "write_failed", "mkdir_failed"} :
       /\ temp_files' = IF how = "write_failed" THEN temp_files ELSE temp_files \cup {c}
       /\ requests' = [requests EXCEPT ![c] =
                         IF how = "ok" THEN [@ EXCEPT !.pc = "rename"]
                         ELSE Ended(@, "io_error")]
  /\ UNCHANGED <<files, sidecars, overlap, first_stored, committed, stores_ok>>

\* fs::rename puts the temp file in place of whatever is at the target
RenameReplaces(fs, k) == TRUE

\* lines 141-147: the rename, and the removal of the temp file when it fails
Rename(c) ==
  /\ requests[c].pc = "rename"
  /\ LET k == requests[c].key
         data == requests[c].data
     IN \E ok \in BOOLEAN :
          IF ok /\ c \in temp_files /\ RenameReplaces(files, k)
          THEN /\ files' = [files EXCEPT ![k] = File(data)]
               /\ committed' = [committed EXCEPT ![k] =
                                  IF @.present THEN @ ELSE File(data)]
               /\ requests' = [requests EXCEPT ![c].pc = "sidecar"]
          ELSE /\ requests' = [requests EXCEPT ![c] = Ended(@, "io_error")]
               /\ UNCHANGED <<files, committed>>
  /\ temp_files' = temp_files \ {c}
  /\ UNCHANGED <<sidecars, overlap, first_stored, stores_ok>>

\* lines 149-166: the sidecar is written and store_artifact returns
WriteSidecar(c) ==
  /\ requests[c].pc = "sidecar"
  /\ LET k == requests[c].key
         data == requests[c].data
     IN \E ok \in BOOLEAN :
          IF ok
          THEN /\ sidecars' = [sidecars EXCEPT ![k] = StorageMetadata(data)]
               /\ first_stored' = [first_stored EXCEPT ![k] =
                                     IF @.present THEN @ ELSE File(data)]
               /\ stores_ok' = [stores_ok EXCEPT ![k] = IF @ < 2 THEN @ + 1 ELSE @]
               /\ requests' = [requests EXCEPT ![c] = Ended(@, "ok")]
          ELSE /\ requests' = [requests EXCEPT ![c] = Ended(@, "io_error")]
               /\ UNCHANGED <<sidecars, first_stored, stores_ok>>
  /\ UNCHANGED <<files, temp_files, overlap, committed>>

\* GET /v1/artifacts/{k}
Download(c, k) ==
  /\ MayStart(c)
  /\ requests' = [requests EXCEPT ![c] =
                    [IdleRequest EXCEPT !.op = "GET", !.key = k, !.pc = "done",
                                        !.resp = download_artifact(files, sidecars, k)]]
  /\ UNCHANGED <<files, sidecars, temp_files, overlap, first_stored, committed, stores_ok>>

\* HEAD /v1/artifacts/{k}
Check(c, k) ==
  /\ MayStart(c)
  /\ requests' = [requests EXCEPT ![c] =
                    [IdleRequest EXCEPT !.op = "HEAD", !.key = k, !.pc = "done",
                                        !.resp = check_artifact(files, sidecars, k)]]
  /\ UNCHANGED <<files, sidecars, temp_files, overlap, first_stored, committed, stores_ok>>

\* Storage::cleanup_temp_files
CleanupTemp ==
  /\ temp_files # {}
  /\ temp_files' = {}
  /\ UNCHANGED <<files, sidecars, requests, overlap, first_stored, committed, stores_ok>>

\* the client has its answer
Finish(c) ==
  /\ requests[c].pc = "done"
  /\ requests' = [requests EXCEPT ![c] = IdleRequest]
  /\ UNCHANGED <<files, sidecars, temp_files, overlap, first_stored, committed, stores_ok>>

(***************************************************************************)
(* DependencyGraph::affected_packages                                      *)
(***************************************************************************)
\* longest changed_packages tried
MaxChanged == 2

\* the edges DependencyGraph::new added for the packages of g
EdgesOf(g) == AddEdges(g.packages, 1, 1, <<>>).edges

\* mutant: the outgoing neighbours are taken
dependents_Outgoing(g, package_name) ==
  IF ~HasName(g.packages, package_name) THEN [kind |-> "err"]
  ELSE [kind |-> "ok",
        names |-> IdsToNames(g.packages,
                             OutNbrs(EdgesOf(g), NameToNode(g.packages, package_name)))]

\* DependencyGraph::dependents: Err for a name that is no package, else the
\* incoming neighbours
dependents(g, package_name) ==
  IF ~HasName(g.packages, package_name) THEN [kind |-> "err"]
  ELSE [kind |-> "ok",
        names |-> IdsToNames(g.packages,
                             InNbrs(EdgesOf(g), NameToNode(g.packages, package_name)))]

NoCallYet == [kind |-> "none"]

AffectedIdle ==
  /\ changed_packages = <<>>
  /\ affected = {}
  /\ workers = <<>>
  /\ affected_ret = NoCallYet

ChangedLists == DistinctSeqsUpTo(AllNames \cup {UnknownDep}, MaxChanged)

\* affected_packages(changed) is called: the DashSet is empty and one
\* closure per element of the queue waits for a thread; for_each over an
\* empty queue is over at once and the empty set is returned
affected_packages(changed) ==
  /\ graph.status = "ok"
  /\ workers = <<>>
  /\ affected_ret = NoCallYet
  /\ changed_packages' = changed
  /\ affected' = {}
  /\ workers' = [i \in 1..Len(changed) |->
                   [pc |-> "start", local_queue |-> <<>>, local_visited |-> {},
                    pending |-> <<>>]]
  /\ affected_ret' = IF changed = <<>> THEN [kind |-> "ok", set |-> {}]
                                       ELSE NoCallYet

\* `affected.insert(pkg.clone()); let mut local_queue = vec![pkg.clone()];`
WorkerStart(i) ==
  /\ i \in 1..Len(workers)
  /\ workers[i].pc = "start"
  /\ affected' = affected \cup {changed_packages[i]}
  /\ workers' = [workers EXCEPT ![i].pc = "loop",
                                ![i].local_queue = <<changed_packages[i]>>]
  /\ UNCHANGED <<changed_packages, affected_ret>>

\* one turn of `while let Some(current) = local_queue.pop()` up to the call
\* of dependents, or the end of the closure
WorkerPop(i) ==
  /\ i \in 1..Len(workers)
  /\ workers[i].pc = "loop"
  /\ LET w == workers[i] IN
     IF w.local_queue = <<>>
     THEN workers' = [workers EXCEPT ![i].pc = "done"]
     ELSE LET current == Last(w.local_queue)
              d == dependents(graph, current)
          IN IF current \in w.local_visited
             THEN workers' = [workers EXCEPT ![i].local_queue = Front(@)]
             ELSE workers' = [workers EXCEPT
                    ![i].local_queue = Front(@),
                    ![i].local_visited = @ \cup {current},
                    ![i].pending = IF d.kind = "ok" THEN d.names ELSE <<>>,
                    ![i].pc = IF d.kind = "ok" /\ d.names # <<>> THEN "insert" ELSE "loop"]
  /\ UNCHANGED <<changed_packages, affected, affected_ret>>

\* `if affected.insert(dep.clone()) { local_queue.push(dep); }` for the next
\* dependent
WorkerInsert(i) ==
  /\ i \in 1..Len(workers)
  /\ workers[i].pc = "insert"
  /\ LET dep == Head(workers[i].pending) IN
     /\ affected' = affected \cup {dep}
     /\ workers' = [workers EXCEPT
          ![i].pending = Tail(@),
          ![i].local_queue = IF dep \in affected THEN @ ELSE Append(@, dep),
          ![i].pc = IF Tail(workers[i].pending) = <<>> THEN "loop" ELSE "insert"]
  /\ UNCHANGED <<changed_packages, affected_ret>>

\* for_each has returned: `Ok(affected.into_iter().collect())`
AffectedReturn ==
  /\ affected_ret = NoCallYet
  /\ workers # <<>>
  /\ \A i \in 1..Len(workers) : workers[i].pc = "done"
  /\ affected_ret' = [kind |-> "ok", set |-> affected]
  /\ UNCHANGED <<changed_packages, affected, workers>>

(***************************************************************************)
(* CacheKey and CacheKeyBuilder (remote_cache/cache_key.rs)                *)
(***************************************************************************)
\* the names on the env allowlist in the order BTreeMap keeps them, and
\* their values
EnvNames == <<"VAR1", "VAR2">>

EnvValue == [n \in Range(EnvNames) |-> IF n = "VAR1" THEN "value1" ELSE "value2"]

\* input files: fx stands for the low bits of the FxHash of the path, which
\* decide the bucket where the probe for the path starts
InputFiles ==
  { [path |-> "p1", fx |-> 1], [path |-> "p2", fx |-> 5],
    [path |-> "p3", fx |-> 1], [path |-> "p4", fx |-> 2] }

\* the content hash build_cache_key records for an input file
ContentHash(f) == <<"blake3", f.path>>

\* hashbrown: a table of n buckets, all empty
NoBucket == [full |-> FALSE]

EmptyTable(n) == [i \in 1..n |-> NoBucket]

Entries(table) == {i \in 1..Len(table) : table[i].full}

\* hashbrown capacity_to_buckets / bucket_mask_to_capacity for tables below
\* the group width
MinBuckets == 4

Capacity(buckets) == buckets - 1

\* find_insert_slot for a table smaller than one group: the first empty
\* bucket at or after the start position, else the first empty bucket
FindInsertSlot(table, fx) ==
  LET n == Len(table)
      start == (fx % n) + 1
      after == {i \in start..n : ~table[i].full}
      all == {i \in 1..n : ~table[i].full}
  IN IF after # {} THEN CHOOSE i \in after : \A j \in after : i <= j
     ELSE CHOOSE i \in all : \A j \in all : i <= j

RawInsert(table, f, value) ==
  [table EXCEPT ![FindInsertSlot(table, f.fx)] =
     [full |-> TRUE, key |-> f, value |-> value]]

\* resize: the entries move to the new table in the order of their buckets
RECURSIVE MoveFrom(_, _, _)
MoveFrom(old, i, new) ==
  IF i > Len(old) THEN new
  ELSE MoveFrom(old, i + 1,
                IF old[i].full THEN RawInsert(new, old[i].key, old[i].value) ELSE new)

Resize(table) ==
  MoveFrom(table, 1, EmptyTable(IF table = <<>> THEN MinBuckets ELSE 2 * Len(table)))

\* FxHashMap::insert of a path that is not in the map: the table grows when
\* it has no room left, then the entry goes to its insert slot
MapInsert(table, f, value) ==
  IF Cardinality(Entries(table)) + 1 > Capacity(Len(table))
  THEN RawInsert(Resize(table), f, value)
  ELSE RawInsert(table, f, value)

\* the map read in iteration order: ascending buckets
MapIter(table) ==
  LET full == SelectSeq(table, LAMBDA b : b.full)
  IN [i \in 1..Len(full) |-> <<full[i].key.path, full[i].value>>]

\* the map as a map: path -> hash
MapContents(table) == {<<table[i].key.path, table[i].value>> : i \in Entries(table)}

\* serialize_env_vars: the pairs in the order of the BTreeMap
serialize_env_vars(env_vars) ==
  LET names == SelectSeq(EnvNames, LAMBDA n : n \in DOMAIN env_vars)
  IN [i \in 1..Len(names) |-> <<names[i], env_vars[names[i]]>>]

\* bincode::serialize(self): the fields in the order of their declaration
Serialize(key) ==
  << key.package_id, key.task_name, key.command,
     serialize_env_vars(key.env_vars), MapIter(key.input_file_hashes),
     key.dependency_graph_hash, key.toolchain_version >>

\* CacheKey::hash: SHA-256 of the serialized key
CacheKeyHash(key) == <<"sha256", Serialize(key)>>

KeyIds == {1, 2}

Commands2 == {"echo hello", "echo world"}

\* CacheKey::builder() followed by the five setters of the scalar fields
NewBuilder(command) ==
  [ package_id |-> "test-package", task_name |-> "build", command |-> command,
    env_vars |-> << >>, input_file_hashes |-> << >>,
    dependency_graph_hash |-> "abc123", toolchain_version |-> "node-v20.0.0",
    built |-> FALSE ]

NoHash == <<"none">>

KeyInit ==
  /\ builders \in [KeyIds -> {NewBuilder(c) : c \in Commands2}]
  /\ key_hash = [b \in KeyIds |-> NoHash]

\* CacheKeyBuilder::env_var
env_var(b, name) ==
  /\ ~builders[b].built
  /\ name \notin DOMAIN builders[b].env_vars
  /\ builders' = [builders EXCEPT ![b].env_vars = (name :> EnvValue[name]) @@ @]
  /\ UNCHANGED key_hash

\* CacheKeyBuilder::input_file
input_file(b, f) ==
  /\ ~builders[b].built
  /\ f \notin {builders[b].input_file_hashes[i].key : i \in Entries(builders[b].input_file_hashes)}
  /\ builders' = [builders EXCEPT
       ![b].input_file_hashes = MapInsert(@, f, ContentHash(f))]
  /\ UNCHANGED key_hash

\* CacheKeyBuilder::build followed by CacheKey::hash
build(b) ==
  /\ ~builders[b].built
  /\ builders' = [builders EXCEPT ![b].built = TRUE]
  /\ key_hash' = [key_hash EXCEPT ![b] = CacheKeyHash(builders[b])]

\* no CacheKey is being built
KeyIdle ==
  /\ builders = [b \in KeyIds |-> NewBuilder("echo hello")]
  /\ key_hash = [b \in KeyIds |-> NoHash]

(***************************************************************************)
(* RemoteCache::build_cache_key: the dependency graph hash                 *)
(***************************************************************************)
\* DependencyGraph::dependencies: Err for a name that is no package, else the
\* outgoing neighbours
dependencies(g, package_name) ==
  IF ~HasName(g.packages, package_name) THEN [kind |-> "err"]
  ELSE [kind |-> "ok",
        names |-> IdsToNames(g.packages,
                             OutNbrs(AddEdges(g.packages, 1, 1, <<>>).edges,
                                     NameToNode(g.packages, package_name)))]

\* `graph.dependencies(&package.name).unwrap_or_default()`, then SHA-256 of
\* "name:task" followed by ":dep" for each of them
dependency_graph_hash(g, package_name, task_name) ==
  LET d == dependencies(g, package_name)
      deps == IF d.kind = "ok" THEN d.names ELSE <<>>
  IN <<"sha256", <<package_name, task_name>> \o deps>>

\* the CacheKey build_cache_key builds, env allowlist and input files empty
DepCacheKey(g, package_name, task_name, command) ==
  [ package_id |-> package_name, task_name |-> task_name, command |-> command,
    env_vars |-> << >>, input_file_hashes |-> << >>,
    dependency_graph_hash |-> dependency_graph_hash(g, package_name, task_name),
    toolchain_version |-> "node-v20.0.0" ]

\* the graphs DependencyGraph::new accepts for the packages of PkgNames
GraphInputs ==
  LET lists == {pkgs \in [1..Len(PkgNames) ->
                            [name : Range(PkgNames),
                             deps : DistinctSeqsUpTo(Range(PkgNames), MaxDeps)]] :
                  \A i \in 1..Len(PkgNames) : pkgs[i].name = PkgNames[i]}
  IN {DependencyGraph_new(pkgs) : pkgs \in lists} \ 
       {g \in {DependencyGraph_new(pkgs) : pkgs \in lists} : g.status # "ok"}

GraphIds == {1, 2}

NoKey == [built |-> FALSE]

DepIdle ==
  /\ dep_graphs = [i \in GraphIds |-> NoGraph]
  /\ dep_package = ""
  /\ dep_keys = [i \in GraphIds |-> NoKey]

DepInit ==
  /\ dep_graphs \in [GraphIds -> GraphInputs]
  /\ dep_package \in Range(PkgNames)
  /\ dep_keys = [i \in GraphIds |-> NoKey]

\* build_cache_key(package, "build", "echo hello", graph i, path)
BuildCacheKey(i) ==
  /\ ~dep_keys[i].built
  /\ dep_keys' = [dep_keys EXCEPT ![i] =
       [built |-> TRUE,
        key |-> DepCacheKey(dep_graphs[i], dep_package, "build", "echo hello")]]
  /\ UNCHANGED <<dep_graphs, dep_package>>

(***************************************************************************)
(* Artifact (remote_cache/artifact.rs)                                     *)
(* A path is the sequence of its components, file contents are byte        *)
(* sequences, a tar archive is the sequence of its entries.                *)
(***************************************************************************)
MaxTampers == 1

\* the relative paths of output files in the order BTreeMap keeps them
PathOrder == << <<"f1">>, <<"sub", "f2">> >>

OutputPaths == Range(PathOrder)

Contents == { <<7>>, <<8, 9>> }

\* the maps `output_files` can be
OutputMaps ==
  UNION {[S -> Contents] : S \in SUBSET OutputPaths}

Sha256Hex(bytes) == <<"sha256", bytes>>

\* the keys of a BTreeMap in iteration order
SortedPaths(map) == SelectSeq(PathOrder, LAMBDA p : p \in DOMAIN map)

RECURSIVE SumSizes(_, _)
SumSizes(output_files, paths) ==
  IF paths = <<>> THEN 0
  ELSE Len(output_files[Head(paths)]) + SumSizes(output_files, Tail(paths))

\* serde_json::to_string of a struct: its fields in declaration order
MetadataJson(m) ==
  << <<"package_name", m.package_name>>, <<"task_name", m.task_name>>,
     <<"command", m.command>>, <<"cache_key_hash", m.cache_key_hash>>,
     <<"created_at", m.created_at>>, <<"version", m.version>> >>

\* a BTreeMap is written as an object, its keys in order
ManifestJson(m) ==
  LET paths == SortedPaths(m.files) IN
  << <<"files", [i \in 1..Len(paths) |-> <<paths[i], m.files[paths[i]]>>]>>,
     <<"total_size", m.total_size>> >>

JsonHas(obj, field) == \E i \in 1..Len(obj) : obj[i][1] = field

JsonGet(obj, field) == obj[CHOOSE i \in 1..Len(obj) : obj[i][1] = field][2]

\* serde_json::from_str::<ArtifactMetadata>
ParseMetadata(obj) ==
  LET fields == {"package_name", "task_name", "command", "cache_key_hash",
                 "created_at", "version"}
  IN IF \E f \in fields : ~JsonHas(obj, f) THEN [ok |-> FALSE]
     ELSE [ok |-> TRUE,
           value |-> [f \in fields |-> JsonGet(obj, f)]]

\* serde_json::from_str::<ArtifactManifest>
ParseManifest(obj) ==
  IF ~JsonHas(obj, "files") \/ ~JsonHas(obj, "total_size") THEN [ok |-> FALSE]
  ELSE LET pairs == JsonGet(obj, "files") IN
       [ok |-> TRUE,
        value |-> [files |-> [p \in {pairs[i][1] : i \in 1..Len(pairs)} |->
                                JsonGet(pairs, p)],
                   total_size |-> JsonGet(obj, "total_size")]]

\* zstd::encode_all and zstd::decode_all
ZstdEncode(tar) == [zstd |-> tar]

ZstdDecode(data) == data.zstd

\* mutant: the output files are stored under their relative paths
OutputEntryPath_NoPrefix(path) == path

\* `Path::new("outputs").join(path)`
OutputEntryPath(path) == <<"outputs">> \o path

\* `path.strip_prefix("outputs")`
StripOutputs(path) ==
  IF Len(path) >= 1 /\ Head(path) = "outputs"
  THEN [ok |-> TRUE, relative_path |-> Tail(path)]
  ELSE [ok |-> FALSE]

\* Artifact::new
ArtifactNew(package_name, task_name, command, cache_key_hash, output_files, now) ==
  LET paths == SortedPaths(output_files)
      manifest == [files |-> [p \in DOMAIN output_files |-> Sha256Hex(output_files[p])],
                   total_size |-> SumSizes(output_files, paths)]
      metadata == [package_name |-> package_name, task_name |-> task_name,
                   command |-> command, cache_key_hash |-> cache_key_hash,
                   created_at |-> now, version |-> 1]
      tar == << [path |-> <<"metadata.json">>, content |-> MetadataJson(metadata)],
                [path |-> <<"manifest.json">>, content |-> ManifestJson(manifest)] >>
             \o [i \in 1..Len(paths) |->
                   [path |-> OutputEntryPath(paths[i]), content |-> output_files[paths[i]]]]
  IN [metadata |-> metadata, manifest |-> manifest, compressed_data |-> ZstdEncode(tar)]

\* the last entry of the archive with the given path, parsed by `parse`
RECURSIVE ScanFor(_, _, _, _, _)
ScanFor(tar, i, path, found, parsed) ==
  IF i > Len(tar) THEN [failed |-> FALSE, found |-> found, value |-> parsed]
  ELSE IF tar[i].path # path THEN ScanFor(tar, i + 1, path, found, parsed)
  ELSE LET r == IF path = <<"metadata.json">> THEN ParseMetadata(tar[i].content)
                                             ELSE ParseManifest(tar[i].content)
       IN IF ~r.ok THEN [failed |-> TRUE]
          ELSE ScanFor(tar, i + 1, path, TRUE, r.value)

\* Artifact::from_compressed
from_compressed(data) ==
  LET tar == ZstdDecode(data)
      md == ScanFor(tar, 1, <<"metadata.json">>, FALSE, <<>>)
      mf == ScanFor(tar, 1, <<"manifest.json">>, FALSE, <<>>)
  IN IF md.failed \/ mf.failed THEN [kind |-> "err"]
     ELSE IF ~md.found \/ ~mf.found THEN [kind |-> "err"]
     ELSE [kind |-> "ok",
           artifact |-> [metadata |-> md.value, manifest |-> mf.value,
                         compressed_data |-> data]]

\* Artifact::extract_outputs into an empty directory: the files written,
\* entry after entry
RECURSIVE ExtractFrom(_, _, _)
ExtractFrom(tar, i, tree) ==
  IF i > Len(tar) THEN tree
  ELSE IF tar[i].path = <<"metadata.json">> \/ tar[i].path = <<"manifest.json">>
       THEN ExtractFrom(tar, i + 1, tree)
  ELSE LET s == StripOutputs(tar[i].path) IN
       IF ~s.ok THEN ExtractFrom(tar, i + 1, tree)
       ELSE ExtractFrom(tar, i + 1,
              [p \in DOMAIN tree \cup {s.relative_path} |->
                 IF p = s.relative_path THEN tar[i].content ELSE tree[p]])

extract_outputs(artifact) ==
  ExtractFrom(ZstdDecode(artifact.compressed_data), 1, << >>)

(***************************************************************************)
(* ArtifactVerifier (remote_cache/integrity.rs)                            *)
(***************************************************************************)
HashMatches(content, expected_hash) == Sha256Hex(content) = expected_hash

\* verify_manifest: the entries of the archive one after the other
RECURSIVE VerifyFrom(_, _, _)
VerifyFrom(tar, i, manifest) ==
  IF i > Len(tar) THEN "ok"
  ELSE IF tar[i].path = <<"metadata.json">> \/ tar[i].path = <<"manifest.json">>
       THEN VerifyFrom(tar, i + 1, manifest)
  ELSE LET s == StripOutputs(tar[i].path) IN
       IF ~s.ok THEN VerifyFrom(tar, i + 1, manifest)
       ELSE IF s.relative_path \notin DOMAIN manifest.files THEN "not_in_manifest"
       ELSE IF ~HashMatches(tar[i].content, manifest.files[s.relative_path])
            THEN "hash_mismatch"
       ELSE VerifyFrom(tar, i + 1, manifest)

verify_manifest(artifact) ==
  VerifyFrom(ZstdDecode(artifact.compressed_data), 1, artifact.manifest)

\* ArtifactVerifier::verify
verify(artifact, has_expected, expected_hash) ==
  IF has_expected /\ Sha256Hex(artifact.compressed_data) # expected_hash
  THEN "artifact_hash_mismatch"
  ELSE verify_manifest(artifact)

(***************************************************************************)
(* An artifact is created, stored or sent, read back, verified, extracted  *)
(***************************************************************************)
NoArt == [kind |-> "none"]

ArtIdle ==
  /\ art_input = NoArt
  /\ art_created = NoArt
  /\ art_data = NoArt
  /\ art_tampers = 0
  /\ art_parsed = NoArt
  /\ art_verify = NoArt
  /\ art_tree = NoArt

\* Artifact::new(...) and artifact.compressed_data() handed to the backend
CreateArtifact(output_files) ==
  /\ art_input = NoArt
  /\ LET a == ArtifactNew("test", "build", "echo", "hash123", output_files, 1700000000) IN
     /\ art_input' = [kind |-> "args", output_files |-> output_files]
     /\ art_created' = a
     /\ art_data' = a.compressed_data
  /\ UNCHANGED <<art_tampers, art_parsed, art_verify, art_tree>>

CanTamper == art_input # NoArt /\ art_parsed = NoArt /\ art_tampers < MaxTampers

\* the bytes change in the store or on the wire: an entry is lost
DropEntry(i) ==
  /\ CanTamper
  /\ i \in 1..Len(ZstdDecode(art_data))
  /\ LET tar == ZstdDecode(art_data) IN
     art_data' = ZstdEncode(SubSeq(tar, 1, i - 1) \o SubSeq(tar, i + 1, Len(tar)))
  /\ art_tampers' = art_tampers + 1
  /\ UNCHANGED <<art_input, art_created, art_parsed, art_verify, art_tree>>

\* the content of an entry under outputs/ is replaced
AlterContent(i, c) ==
  /\ CanTamper
  /\ i \in 1..Len(ZstdDecode(art_data))
  /\ LET tar == ZstdDecode(art_data) IN
     /\ StripOutputs(tar[i].path).ok
     /\ tar[i].content # c
     /\ art_data' = ZstdEncode([tar EXCEPT ![i].content = c])
  /\ art_tampers' = art_tampers + 1
  /\ UNCHANGED <<art_input, art_created, art_parsed, art_verify, art_tree>>

\* an entry under outputs/ is added
AddEntry(p, c) ==
  /\ CanTamper
  /\ art_data' = ZstdEncode(Append(ZstdDecode(art_data),
                                   [path |-> OutputEntryPath(p), content |-> c]))
  /\ art_tampers' = art_tampers + 1
  /\ UNCHANGED <<art_input, art_created, art_parsed, art_verify, art_tree>>

\* Artifact::from_compressed(data) on the reading side
FromCompressed ==
  /\ art_data # NoArt
  /\ art_parsed = NoArt
  /\ art_parsed' = from_compressed(art_data)
  /\ UNCHANGED <<art_input, art_created, art_data, art_tampers, art_verify, art_tree>>

\* ArtifactVerifier::verify(&artifact, None)
Verify ==
  /\ art_parsed.kind = "ok"
  /\ art_verify = NoArt
  /\ art_verify' = [kind |-> verify(art_parsed.artifact, FALSE, <<>>)]
  /\ UNCHANGED <<art_input, art_created, art_data, art_tampers, art_parsed, art_tree>>

\* artifact.extract_outputs(dst), dst empty
ExtractOutputs ==
  /\ art_parsed.kind = "ok"
  /\ art_tree = NoArt
  /\ art_tree' = [kind |-> "tree", files |-> extract_outputs(art_parsed.artifact)]
  /\ UNCHANGED <<art_input, art_created, art_data, art_tampers, art_parsed, art_verify>>

(***************************************************************************)
(* StreamingTask::stream_output (streaming.rs)                             *)
(* A stream is a sequence of characters, "LF" the line feed.               *)
(***************************************************************************)
MaxChunks == 2

Streams == {"stdout", "stderr"}

\* what one write of the process can be
Chunks ==
  [stdout |-> { <<"a">>, <<"b", "LF">>, <<"LF">> },
   stderr |-> { <<"e", "LF">> }]

SeqsUpTo(S, n) == UNION {[1..k -> S] : k \in 0..n}

\* the index of the first line feed of s, or 0
FirstLF(s) ==
  IF \E i \in 1..Len(s) : s[i] = "LF"
  THEN CHOOSE i \in 1..Len(s) : s[i] = "LF" /\ \A j \in 1..(i - 1) : s[j] # "LF"
  ELSE 0

StreamIdle ==
  /\ script = [s \in Streams |-> <<>>]
  /\ written = [s \in Streams |-> <<>>]
  /\ exited = FALSE
  /\ pipe = [s \in Streams |-> <<>>]
  /\ line_buf = [s \in Streams |-> <<>>]
  /\ stream_done = [s \in Streams |-> FALSE]
  /\ exit_status = FALSE
  /\ sink = <<>>
  /\ stream_ret = FALSE

\* StreamingTask::spawn has returned: the process runs, nothing is read yet
StreamInit ==
  /\ script \in [Streams -> SeqsUpTo(Chunks.stdout \cup Chunks.stderr, MaxChunks)]
  /\ \A s \in Streams : Range(script[s]) \subseteq Chunks[s]
  /\ written = [s \in Streams |-> <<>>]
  /\ exited = FALSE
  /\ pipe = [s \in Streams |-> <<>>]
  /\ line_buf = [s \in Streams |-> <<>>]
  /\ stream_done = [s \in Streams |-> FALSE]
  /\ exit_status = FALSE
  /\ sink = <<>>
  /\ stream_ret = FALSE

\* the process writes its next chunk to one of its streams
ProcWrite(s) ==
  /\ ~exited
  /\ script[s] # <<>>
  /\ script' = [script EXCEPT ![s] = Tail(@)]
  /\ written' = [written EXCEPT ![s] = @ \o Head(script[s])]
  /\ pipe' = [pipe EXCEPT ![s] = @ \o Head(script[s])]
  /\ UNCHANGED <<exited, line_buf, stream_done, exit_status, sink, stream_ret>>

\* the process exits
ProcExit ==
  /\ ~exited
  /\ \A s \in Streams : script[s] = <<>>
  /\ exited' = TRUE
  /\ UNCHANGED <<script, written, pipe, line_buf, stream_done, exit_status, sink,
                 stream_ret>>

\* select! has completed one branch: the futures of the turn are dropped,
\* and the next turn starts with `String::new()` for both lines
AfterSelect == [t \in Streams |-> <<>>]

\* mutant: the exit alone ends the loop
Returns_ExitOnly(exit, done) == exit

\* `if let Some(status) = exit_status { if stdout_done && stderr_done {return} }`
Returns(exit, done) == exit /\ \A s \in Streams : done[s]

\* the branch of read_line on stream s is polled: it takes the bytes at hand
\* up to the first line feed; with a line feed or at end of file it completes
\* and its arm runs, otherwise it stays pending with what it has taken
PollRead(s) ==
  /\ ~stream_ret
  /\ ~stream_done[s]
  /\ pipe[s] # <<>> \/ exited
  /\ LET n == FirstLF(pipe[s])
         taken == IF n = 0 THEN pipe[s] ELSE SubSeq(pipe[s], 1, n)
         line == line_buf[s] \o taken
         complete == n # 0 \/ exited
     IN /\ pipe' = [pipe EXCEPT ![s] = SubSeq(@, Len(taken) + 1, Len(@))]
        /\ IF ~complete
           THEN /\ line_buf' = [line_buf EXCEPT ![s] = line]
                /\ UNCHANGED <<stream_done, sink, stream_ret>>
           ELSE /\ line_buf' = AfterSelect
                /\ stream_done' = [stream_done EXCEPT ![s] = (line = <<>>)]
                /\ sink' = IF line # <<>> /\ TrimEnd(line) # <<>>
                           THEN Append(sink, <<TrimEnd(line), s = "stderr">>)
                           ELSE sink
                /\ stream_ret' = Returns(exit_status, stream_done')
  /\ UNCHANGED <<script, written, exited, exit_status>>

\* the branch of child.wait() completes
PollWait ==
  /\ ~stream_ret
  /\ ~exit_status
  /\ exited
  /\ exit_status' = TRUE
  /\ line_buf' = AfterSelect
  /\ stream_ret' = Returns(TRUE, stream_done)
  /\ UNCHANGED <<script, written, exited, pipe, stream_done, sink>>

(***************************************************************************)
(* A call of CommandValidator::validate                                    *)
(***************************************************************************)
MaxCmdChars == 3

CmdChars == {"a", " ", "LF", "CR", ";"}

ValidateIdle ==
  /\ v_allow_shell = TRUE
  /\ v_command = <<>>
  /\ v_result = "none"

\* CommandValidator::new() or CommandValidator::strict() and a command
ValidateInit ==
  /\ v_allow_shell \in BOOLEAN
  /\ v_command \in SeqsUpTo(CmdChars, MaxCmdChars)
  /\ v_result = "none"

\* validator.validate(command)
Validate ==
  /\ v_result = "none"
  /\ v_result' = IF validate(v_allow_shell, v_command) THEN "ok" ELSE "err"
  /\ UNCHANGED <<v_allow_shell, v_command>>

(***************************************************************************)
(* HttpBackend::retry (remote_cache/http.rs)                               *)
(***************************************************************************)
\* HttpBackend::new: max_retries and retry_delay in milliseconds
MaxRetries == 3

RetryDelayMs == 100

HttpOps == {"upload", "fetch", "has"}

\* what one request of an operation can end in: the closure's Ok or Err
Outcomes(op) ==
  IF op = "upload" THEN {"success", "send_error", "status_error"}
  ELSE IF op = "fetch" THEN {"success", "not_found", "send_error", "status_error",
                             "body_error"}
  ELSE {"success", "not_found", "send_error", "status_error"}

IsOk(res) == res \in {"success", "not_found"}

HttpIdle ==
  /\ http_op = ""
  /\ http_pc = "idle"
  /\ attempt = 0
  /\ delay = RetryDelayMs
  /\ last_error = ""
  /\ http_requests = <<>>
  /\ sleeps = <<>>
  /\ http_ret = [kind |-> "none"]

\* upload_artifact, fetch_artifact or has_artifact calls self.retry(...)
CallOp(op) ==
  /\ http_pc = "idle"
  /\ http_op' = op
  /\ http_pc' = "attempt"
  /\ attempt' = 0
  /\ delay' = RetryDelayMs
  /\ last_error' = ""
  /\ UNCHANGED <<http_requests, sleeps, http_ret>>

\* one turn of `for attempt in 0..=self.max_retries`: `match f().await`,
\* that is one request, and its arm
Attempt(res) ==
  /\ http_pc = "attempt"
  /\ res \in Outcomes(http_op)
  /\ http_requests' = Append(http_requests, res)
  /\ IF IsOk(res)
     THEN /\ http_ret' = [kind |-> "ok", value |-> res]
          /\ http_pc' = "done"
          /\ UNCHANGED last_error
     ELSE /\ last_error' = res
          /\ IF attempt < MaxRetries
             THEN http_pc' = "sleep" /\ UNCHANGED http_ret
             ELSE /\ http_pc' = "done"
                  /\ http_ret' = [kind |-> "err", error |-> res]
  /\ UNCHANGED <<http_op, attempt, delay, sleeps>>

\* `sleep(delay).await; delay *= 2;` and the next turn of the loop
Sleep ==
  /\ http_pc = "sleep"
  /\ sleeps' = Append(sleeps, delay)
  /\ delay' = delay * 2
  /\ attempt' = attempt + 1
  /\ http_pc' = "attempt"
  /\ UNCHANGED <<http_op, last_error, http_requests, http_ret>>

(***************************************************************************)
(* The scan cache (cache.rs) and Scanner::scan (scanner.rs)                *)
(***************************************************************************)
CACHE_VERSION == 3

MaxTime == 2

\* the package directories the workspace can hold, in the order of their names
PkgDirs == <<"p1", "p2">>

NoDir == [present |-> FALSE]

Dir(toml, dir) == [present |-> TRUE, toml |-> toml, dir |-> dir]

\* the keys of CacheEntry.mtimes
TomlKey(p) == <<p, "polykit.toml">>

DirKey(p) == <<p, ".dir">>

package_count_key == <<".package_count">>

\* the file: absent, of length 0, zstd of bincode of a CacheEntry, or bytes
\* that are no such thing (a write that was cut short)
NoSnapshot == [kind |-> "absent"]

EmptyFile == [kind |-> "empty"]

Damaged == [kind |-> "damaged"]

\* zstd::encode_all(bincode::serialize(&entry))
EncodeEntry(entry) == [kind |-> "zstd", bincode |-> entry]

\* zstd::decode_all, then bincode::deserialize
DecodeEntry(file) ==
  IF file.kind = "zstd" THEN [ok |-> TRUE, entry |-> file.bincode] ELSE [ok |-> FALSE]

\* scan_internal: the packages of the polykit.toml files, sorted by name
scan_internal(f) == SelectSeq(PkgDirs, LAMBDA p : f[p].present)

\* count_packages_fast: the number of polykit.toml files
count_packages_fast(f) == Cardinality({p \in Range(PkgDirs) : f[p].present})

\* collect_mtimes: the mtime of each polykit.toml, of its directory under the
\* key <dir>/.dir, and the number of package directories
collect_mtimes(f) ==
  LET present == {p \in Range(PkgDirs) : f[p].present}
      keys == {TomlKey(p) : p \in present} \cup {DirKey(p) : p \in present}
                \cup {package_count_key}
  IN [k \in keys |->
        IF k = package_count_key THEN Cardinality(present)
        ELSE IF k[2] = ".dir" THEN f[k[1]].dir ELSE f[k[1]].toml]

\* the body of the loop of validate_mtimes for one key
is_valid(f, path, cached_time) ==
  IF path[2] = ".dir"
  THEN f[path[1]].present /\ f[path[1]].dir = cached_time
  ELSE f[path[1]].present /\ f[path[1]].toml = cached_time

\* mutant: the number of packages is not compared
CountMatches_Skipped(f, cached_mtimes) == TRUE

\* `if let Some(cached_count) = cached_mtimes.get(&package_count_key)`
CountMatches(f, cached_mtimes) ==
  package_count_key \in DOMAIN cached_mtimes
    => count_packages_fast(f) = cached_mtimes[package_count_key]

validate_mtimes(f, cached_mtimes) ==
  IF DOMAIN cached_mtimes = {} THEN FALSE
  ELSE IF ~CountMatches(f, cached_mtimes) THEN FALSE
  ELSE \A path \in DOMAIN cached_mtimes \ {package_count_key} :
         is_valid(f, path, cached_mtimes[path])

\* Cache::load
CacheLoad(f, file) ==
  IF file.kind = "absent" THEN [kind |-> "miss"]
  ELSE IF file.kind = "empty" THEN [kind |-> "miss"]
  ELSE LET d == DecodeEntry(file) IN
       IF ~d.ok THEN [kind |-> "err"]
       ELSE IF d.entry.version # CACHE_VERSION THEN [kind |-> "miss"]
       ELSE IF ~validate_mtimes(f, d.entry.mtimes) THEN [kind |-> "miss"]
       ELSE [kind |-> "hit", packages |-> d.entry.packages]

\* Cache::save
CacheSave(f, pkgs) ==
  EncodeEntry([version |-> CACHE_VERSION, packages |-> pkgs, mtimes |-> collect_mtimes(f)])

NoScan == [kind |-> "none"]

ScanIdle ==
  /\ workspace = [p \in Range(PkgDirs) |-> NoDir]
  /\ clock = 1
  /\ snapshot = NoSnapshot
  /\ seen = NoScan
  /\ load_ret = NoScan
  /\ scan_ret = NoScan

\* a second passes
Tick ==
  /\ clock < MaxTime
  /\ clock' = clock + 1
  /\ UNCHANGED <<workspace, snapshot, seen, load_ret, scan_ret>>

\* a package directory with its polykit.toml is created
FsCreate(p) ==
  /\ ~workspace[p].present
  /\ workspace' = [workspace EXCEPT ![p] = Dir(clock, clock)]
  /\ UNCHANGED <<clock, snapshot, seen, load_ret, scan_ret>>

\* a package directory is removed
FsRemove(p) ==
  /\ workspace[p].present
  /\ workspace' = [workspace EXCEPT ![p] = NoDir]
  /\ UNCHANGED <<clock, snapshot, seen, load_ret, scan_ret>>

\* polykit.toml is rewritten
FsTouchToml(p) ==
  /\ workspace[p].present
  /\ workspace' = [workspace EXCEPT ![p].toml = clock]
  /\ UNCHANGED <<clock, snapshot, seen, load_ret, scan_ret>>

\* a file is added to or removed from the package directory
FsTouchDir(p) ==
  /\ workspace[p].present
  /\ workspace' = [workspace EXCEPT ![p].dir = clock]
  /\ UNCHANGED <<clock, snapshot, seen, load_ret, scan_ret>>

\* a save is cut short, or a file of length 0 is left behind
DamageSnapshot(file) ==
  /\ snapshot.kind = "zstd"
  /\ file \in {Damaged, EmptyFile}
  /\ snapshot' = file
  /\ UNCHANGED <<workspace, clock, seen, load_ret, scan_ret>>

\* the file was written by a release with another CACHE_VERSION and the same
\* layout of CacheEntry
OtherVersion ==
  /\ snapshot.kind = "zstd"
  /\ snapshot.bincode.version = CACHE_VERSION
  /\ snapshot' = EncodeEntry([snapshot.bincode EXCEPT !.version = CACHE_VERSION - 1])
  /\ UNCHANGED <<workspace, clock, seen, load_ret, scan_ret>>

\* Scanner::scan: `cache.load(..)?`, and after a miss scan_internal and
\* cache.save
Scan ==
  /\ LET l == CacheLoad(workspace, snapshot) IN
     /\ load_ret' = l
     /\ IF l.kind = "err"
        THEN scan_ret' = [kind |-> "err"] /\ UNCHANGED snapshot
        ELSE IF l.kind = "hit"
        THEN scan_ret' = [kind |-> "ok", packages |-> l.packages] /\ UNCHANGED snapshot
        ELSE /\ scan_ret' = [kind |-> "ok", packages |-> scan_internal(workspace)]
             /\ snapshot' = CacheSave(workspace, scan_internal(workspace))
  /\ seen' = [kind |-> "seen", fs |-> workspace, snapshot |-> snapshot,
              left |-> snapshot']
  /\ UNCHANGED <<workspace, clock>>

(***************************************************************************)
(* DependencyGraph::update_incremental                                     *)
(* The struct is kept field by field.  Node indices are 1..n, package ids  *)
(* are positions in `packages`.  petgraph's remove_node moves the last     *)
(* node into the freed index; the maps of the struct are not told.         *)
(***************************************************************************)
\* update_incremental calls in one behaviour
MaxUpdates == 1

\* packages and names listed in one GraphChange
MaxChangeItems == 2

\* names a change may use
ChangeNames == {"a", "b", "c"}

Pkg(name, deps) == [name |-> name, deps |-> deps]

\* descriptors a change may carry: at most one dep each
ChangePackages ==
  {Pkg(n, <<>>) : n \in ChangeNames}
    \cup {Pkg(n, <<d>>) : n \in ChangeNames, d \in ChangeNames}

\* GraphChange {added, modified, removed}
Changes ==
  {c \in [removed : DistinctSeqsUpTo(ChangeNames, 1),
          modified : {<<>>} \cup {<<p>> : p \in ChangePackages},
          added : {<<>>} \cup {<<p>> : p \in ChangePackages}
                    \cup {<<p, q>> : p, q \in ChangePackages}] :
     /\ Len(c.removed) + Len(c.modified) + Len(c.added) \in 1..MaxChangeItems
     /\ NoDup([i \in 1..Len(c.added) |-> c.added[i].name])}

\* the package lists the graphs are first built from
InitialLists ==
  {<<Pkg("a", <<>>)>>,
   <<Pkg("a", <<>>), Pkg("b", <<"a">>)>>,
   <<Pkg("a", <<>>), Pkg("b", <<>>), Pkg("c", <<"b">>)>>,
   <<Pkg("a", <<>>), Pkg("b", <<"a">>), Pkg("c", <<"b">>)>>}

\* FxHashMap::insert and FxHashMap::remove
MapPut(f, k, v) == [x \in DOMAIN f \cup {k} |-> IF x = k THEN v ELSE f[x]]

MapDel(f, k) == [x \in DOMAIN f \ {k} |-> f[x]]

NodeExists(pg, n) == n \in 1..Len(pg.nodes)

\* Graph::add_node
add_node(pg, weight) == [pg EXCEPT !.nodes = Append(@, weight)]

\* Graph::add_edge, for two nodes that exist
add_edge(pg, a, b) == [pg EXCEPT !.edges = Append(@, <<a, b>>)]

\* Graph::remove_node: the edges of the node go, the last node takes the
\* freed index and its edges are re-pointed; nothing for an index out of range
remove_node(pg, a) ==
  IF ~NodeExists(pg, a) THEN pg
  ELSE LET last == Len(pg.nodes)
           kept == SelectSeq(pg.edges, LAMBDA e : e[1] # a /\ e[2] # a)
           Moved(n) == IF n = last THEN a ELSE n
       IN [nodes |-> [i \in 1..(last - 1) |-> IF i = a THEN pg.nodes[last] ELSE pg.nodes[i]],
           edges |-> [i \in 1..Len(kept) |-> <<Moved(kept[i][1]), Moved(kept[i][2])>>]]

\* neighbors_directed mapped to the node weights; empty for an index out of range
NeighborIds(pg, n, outgoing) ==
  IF ~NodeExists(pg, n) THEN <<>>
  ELSE LET nb == IF outgoing THEN OutNbrs(pg.edges, n) ELSE InNbrs(pg.edges, n)
       IN [i \in 1..Len(nb) |-> pg.nodes[nb[i]]]

\* compute_dependency_levels_compact on the struct: the node of an id is
\* looked up in node_to_id
RECURSIVE LevelsWithMap(_, _, _, _, _, _)
LevelsWithMap(pg, node_to_id, order, k, levelMap, levels) ==
  IF k > Len(order) THEN [ok |-> TRUE, levels |-> levels]
  ELSE LET id == order[k]
           found == {n \in DOMAIN node_to_id : node_to_id[n] = id}
       IN IF found = {} THEN [ok |-> FALSE, levels |-> levels]
          ELSE LET node == CHOOSE n \in found : TRUE
                   depIds == NeighborIds(pg, node, TRUE)
                   level == LevelOfDeps([i \in 1..Len(depIds) |-> <<id, depIds[Len(depIds) + 1 - i]>>],
                                        levelMap, id)
               IN LevelsWithMap(pg, node_to_id, order, k + 1,
                                MapPut(levelMap, id, level),
                                PushLevel(levels, level, id))

\* DependencyGraph::new as the whole struct, for a list new accepts
GraphStruct(pkgs) ==
  LET n == Len(pkgs)
      pg == [nodes |-> [i \in 1..n |-> i], edges |-> AddEdges(pkgs, 1, 1, <<>>).edges]
      order == TopologicalOrderIds(toposort(n, pg.edges).sorted)
      node_to_id == [i \in 1..n |-> i]
  IN [pg |-> pg,
      id_to_name |-> [i \in 1..n |-> pkgs[i].name],
      name_to_id |-> [nm \in NamesOf(pkgs) |-> NameToNode(pkgs, nm)],
      packages |-> pkgs,
      cached_topological_order |-> order,
      dependency_levels |-> LevelsWithMap(pg, node_to_id, order, 1, <<>>, <<>>).levels,
      name_to_node |-> [nm \in NamesOf(pkgs) |-> NameToNode(pkgs, nm)],
      node_to_id |-> node_to_id,
      transitive_deps_cache |-> <<>>]

StepOk(g) == [g |-> g, ret |-> "ok"]

StepErr(g, kind) == [g |-> g, ret |-> kind]

\* remove_package
remove_package(g, name) ==
  IF name \notin DOMAIN g.name_to_id THEN StepErr(g, "PackageNotFound")
  ELSE IF name \notin DOMAIN g.name_to_node THEN StepErr(g, "PackageNotFound")
  ELSE LET node == g.name_to_node[name] IN
       StepOk([g EXCEPT !.pg = remove_node(@, node),
                        !.name_to_node = MapDel(@, name),
                        !.node_to_id = MapDel(@, node),
                        !.name_to_id = MapDel(@, name),
                        !.transitive_deps_cache = MapDel(@, name)])

\* the loop `for dep_name in &package.deps` of update_package and add_package:
\* a dep that is not in name_to_node is skipped; add_edge panics for a node
\* index that is out of range
RECURSIVE AddDepEdges(_, _, _, _)
AddDepEdges(g, node, deps, d) ==
  IF d > Len(deps) THEN StepOk(g)
  ELSE IF deps[d] \notin DOMAIN g.name_to_node THEN AddDepEdges(g, node, deps, d + 1)
  ELSE LET dep_node == g.name_to_node[deps[d]] IN
       IF ~NodeExists(g.pg, node) \/ ~NodeExists(g.pg, dep_node)
       THEN StepErr(g, "panic")
       ELSE AddDepEdges([g EXCEPT !.pg = add_edge(@, node, dep_node)], node, deps, d + 1)

\* update_package
update_package(g, package) ==
  IF package.name \notin DOMAIN g.name_to_id THEN StepErr(g, "PackageNotFound")
  ELSE LET package_id == g.name_to_id[package.name]
           g1 == [g EXCEPT !.packages[package_id] = package]
       IN IF package.name \notin DOMAIN g.name_to_node THEN StepErr(g1, "PackageNotFound")
          ELSE LET node == g.name_to_node[package.name]
                   g2 == [g1 EXCEPT !.pg.edges =
                            IF NodeExists(g.pg, node)
                            THEN SelectSeq(@, LAMBDA e : e[1] # node) ELSE @]
                   r == AddDepEdges(g2, node, package.deps, 1)
               IN IF r.ret # "ok" THEN r
                  ELSE StepOk([r.g EXCEPT !.transitive_deps_cache = MapDel(@, package.name)])

\* add_package
add_package(g, package) ==
  LET package_id == Len(g.packages) + 1
      node == Len(g.pg.nodes) + 1
      g1 == [g EXCEPT !.id_to_name = Append(@, package.name),
                      !.name_to_id = MapPut(@, package.name, package_id),
                      !.packages = Append(@, package),
                      !.pg = add_node(@, package_id),
                      !.name_to_node = MapPut(@, package.name, node),
                      !.node_to_id = MapPut(@, node, package_id)]
  IN AddDepEdges(g1, node, package.deps, 1)

\* recompute_affected_levels: the whole order and the levels are recomputed
recompute_affected_levels(g) ==
  LET t == toposort(Len(g.pg.nodes), g.pg.edges) IN
  IF t.cycle # 0 THEN StepErr(g, "CircularDependency")
  ELSE LET rev == TopologicalOrderIds(t.sorted)
           order == [i \in 1..Len(rev) |-> g.pg.nodes[rev[i]]]
           g1 == [g EXCEPT !.cached_topological_order = order]
           l == LevelsWithMap(g.pg, g.node_to_id, order, 1, <<>>, <<>>)
       IN IF ~l.ok THEN StepErr(g1, "PackageNotFound")
          ELSE StepOk([g1 EXCEPT !.dependency_levels = l.levels])

\* one of the three loops of update_incremental; `?` leaves at the first error
RECURSIVE ForEach(_, _, _, _)
ForEach(g, phase, items, k) ==
  IF k > Len(items) THEN StepOk(g)
  ELSE LET r == IF phase = "removed" THEN remove_package(g, items[k])
                ELSE IF phase = "modified" THEN update_package(g, items[k])
                ELSE add_package(g, items[k])
       IN IF r.ret # "ok" THEN r ELSE ForEach(r.g, phase, items, k + 1)

\* update_incremental
update_incremental(g, changes) ==
  LET r1 == ForEach(g, "removed", changes.removed, 1) IN
  IF r1.ret # "ok" THEN r1
  ELSE LET r2 == ForEach(r1.g, "modified", changes.modified, 1) IN
       IF r2.ret # "ok" THEN r2
       ELSE LET r3 == ForEach(r2.g, "added", changes.added, 1) IN
            IF r3.ret # "ok" THEN r3
            ELSE recompute_affected_levels(r3.g)

IdsToNamesOf(g, ids) == [i \in 1..Len(ids) |-> g.id_to_name[ids[i]]]

\* dependencies() and dependents() on the struct: [ok, names]
neighbors_by_name(g, package_name, outgoing) ==
  IF package_name \notin DOMAIN g.name_to_node THEN [ok |-> FALSE, names |-> <<>>]
  ELSE [ok |-> TRUE,
        names |-> IdsToNamesOf(g, NeighborIds(g.pg, g.name_to_node[package_name], outgoing))]

\* the walk of all_dependents: every name that is popped is looked up with
\* dependents(), and the first lookup that fails ends the call
RECURSIVE DependentsWalk(_, _, _)
DependentsWalk(g, stack, result) ==
  IF stack = <<>> THEN [ok |-> TRUE, set |-> result]
  ELSE LET current == Last(stack) IN
       IF current \in result THEN DependentsWalk(g, Front(stack), result)
       ELSE LET d == neighbors_by_name(g, current, FALSE) IN
            IF ~d.ok THEN [ok |-> FALSE, set |-> {}]
            ELSE DependentsWalk(g,
                                Front(stack) \o SelectSeq(d.names, LAMBDA x : x \notin result \cup {current}),
                                result \cup {current})

\* what all_dependents computes without its cache
FreshDependents(g, package_name) ==
  LET w == DependentsWalk(g, <<package_name>>, {}) IN
  IF w.ok THEN [kind |-> "ok", set |-> w.set \ {package_name}] ELSE [kind |-> "err"]

\* all_dependents: the memoised set when there is one
all_dependents(g, package_name) ==
  IF package_name \in DOMAIN g.transitive_deps_cache
  THEN [kind |-> "ok", set |-> g.transitive_deps_cache[package_name]]
  ELSE FreshDependents(g, package_name)

\* the package set of a list, as name -> deps
PackageSet(pkgs) == [nm \in NamesOf(pkgs) |-> pkgs[NameToNode(pkgs, nm)].deps]

RECURSIVE PutAll(_, _, _)
PutAll(set, pkgs, k) ==
  IF k > Len(pkgs) THEN set
  ELSE PutAll(MapPut(set, pkgs[k].name, pkgs[k].deps), pkgs, k + 1)

\* the package set after a change: removed names gone, modified descriptors
\* replaced, added descriptors present
ApplyChange(set, changes) ==
  LET s1 == [nm \in DOMAIN set \ Range(changes.removed) |-> set[nm]]
  IN PutAll(PutAll(s1, changes.modified, 1), changes.added, 1)

\* before the first call; `ret` is that of a call that went well
NoUpdate == [kind |-> "none", ret |-> "ok"]

NoDependentsCall == [kind |-> "none"]

IncrIdle ==
  /\ dgraph = NoGraph
  /\ reference = <<>>
  /\ last_update = NoUpdate
  /\ updates = 0
  /\ ad_ret = NoDependentsCall

IncrInit ==
  /\ \E pkgs \in InitialLists :
       /\ dgraph = GraphStruct(pkgs)
       /\ reference = PackageSet(pkgs)
  /\ last_update = NoUpdate
  /\ updates = 0
  /\ ad_ret = NoDependentsCall

\* graph.update_incremental(changes); after an error or a panic the caller
\* makes no further call
UpdateIncremental(changes) ==
  /\ updates < MaxUpdates
  /\ last_update.ret = "ok"
  /\ LET r == update_incremental(dgraph, changes) IN
     /\ dgraph' = r.g
     /\ reference' = IF r.ret = "ok" THEN ApplyChange(reference, changes) ELSE reference
     /\ last_update' = [kind |-> "update", changes |-> changes, graph_before |-> dgraph,
                        set_before |-> reference, graph_after |-> r.g, ret |-> r.ret]
  /\ updates' = updates + 1
  /\ ad_ret' = NoDependentsCall

\* graph.all_dependents(package_name)
AllDependents(package_name) ==
  /\ last_update.ret = "ok"
  /\ LET r == all_dependents(dgraph, package_name) IN
     /\ ad_ret' = [kind |-> "called", name |-> package_name, ret |-> r,
                   fresh |-> FreshDependents(dgraph, package_name)]
     /\ dgraph' = IF r.kind = "ok"
                  THEN [dgraph EXCEPT !.transitive_deps_cache = MapPut(@, package_name, r.set)]
                  ELSE dgraph
  /\ UNCHANGED <<reference, last_update, updates>>

(***************************************************************************)
(* run_task and run_task_streaming for one package, no cache configured    *)
(***************************************************************************)
\* lines a process prints
MaxLines == 2

\* commands of the tasks: plain ones and one that chains two commands
EntryCommands == {<<"m">>, <<"t">>, <<"m", ";", "t">>}

\* the task tables tried: build alone or build and a test that depends on it
EntryTables ==
  {[t \in TaskNames |->
      IF t = "build" THEN Task(c, <<>>)
      ELSE IF t = "test" /\ withTest THEN Task(<<"t">>, <<"build">>)
      ELSE NoTask] : c \in {<<"m">>, <<"m", ";", "t">>}, withTest \in BOOLEAN}

\* the loop of execute_task_with_deps over task_order[k..], with
\* execute_task_internal reduced to validate and spawn: an Err leaves with
\* `?`, a failure of the requested task ends the loop
RECURSIVE RunOrder(_, _, _, _, _, _, _)
RunOrder(tbl, strict, exits, task_name, order, k, acc) ==
  IF k > Len(order) THEN [acc EXCEPT !.kind = "ok"]
  ELSE LET task == order[k]
           command == tbl[task].command
       IN IF ~validate(~strict, command) THEN [acc EXCEPT !.kind = "err"]
          ELSE LET acc1 == [acc EXCEPT !.spawned = Append(@, command),
                                       !.results = Append(@, [task_name |-> task,
                                                              success |-> exits[command]])]
               IN IF ~exits[command] /\ task = task_name
                  THEN [acc1 EXCEPT !.kind = "ok"]
                  ELSE RunOrder(tbl, strict, exits, task_name, order, k + 1, acc1)

\* execute_task_with_deps: [kind, spawned, results]
execute_task_with_deps(tbl, strict, exits, task_name) ==
  LET o == build_task_dependency_order(tbl, task_name)
      acc0 == [kind |-> "err", spawned |-> <<>>, results |-> <<>>]
  IN IF o.err.kind # "none" THEN acc0
     ELSE RunOrder(tbl, strict, exits, task_name, o.order, 1, acc0)

\* execute_task: the result of the requested task among those of
\* execute_task_with_deps
execute_task(tbl, strict, exits, task_name) ==
  LET r == execute_task_with_deps(tbl, strict, exits, task_name)
      own == SelectSeq(r.results, LAMBDA x : x.task_name = task_name)
  IN IF r.kind = "err" \/ own = <<>>
     THEN [kind |-> "err", spawned |-> r.spawned]
     ELSE [kind |-> "ok", spawned |-> r.spawned, success |-> own[1].success]

NoRun == [kind |-> "none"]

EntryIdle ==
  /\ rt_tasks = [t \in TaskNames |-> NoTask]
  /\ rt_strict = FALSE
  /\ rt_exit = [c \in EntryCommands |-> TRUE]
  /\ rt_entry = "none"
  /\ rt_task = ""
  /\ rt_pc = "idle"
  /\ rt_spawned = <<>>
  /\ rt_ret = NoRun
  /\ rt_stdout = <<>>
  /\ rt_channel = <<>>
  /\ rt_sink = <<>>
  /\ rt_forwarder = "none"

EntryInit ==
  /\ rt_tasks \in EntryTables
  /\ rt_strict \in BOOLEAN
  /\ rt_exit \in [EntryCommands -> BOOLEAN]
  /\ rt_entry = "none"
  /\ rt_task = ""
  /\ rt_pc = "idle"
  /\ rt_spawned = <<>>
  /\ rt_ret = NoRun
  /\ rt_stdout = <<>>
  /\ rt_channel = <<>>
  /\ rt_sink = <<>>
  /\ rt_forwarder = "none"

\* run_task(task_name, Some(&[package])): execute_task(package, task_name)
RunTask(task_name) ==
  /\ rt_entry = "none"
  /\ LET r == execute_task(rt_tasks, rt_strict, rt_exit, task_name) IN
     /\ rt_spawned' = r.spawned
     /\ rt_ret' = IF r.kind = "ok" THEN [kind |-> "ok", success |-> r.success]
                  ELSE [kind |-> "err"]
  /\ rt_entry' = "run_task"
  /\ rt_task' = task_name
  /\ rt_pc' = "done"
  /\ UNCHANGED <<rt_tasks, rt_strict, rt_exit, rt_stdout, rt_channel, rt_sink, rt_forwarder>>

\* run_task_streaming up to StreamingTask::spawn in the tokio task of the
\* package: get_task, CommandValidator::new().validate, Command::spawn; the
\* forwarding task of the level is running
StreamSpawn(task_name) ==
  /\ rt_entry = "none"
  /\ rt_entry' = "run_task_streaming"
  /\ rt_task' = task_name
  /\ rt_forwarder' = "running"
  /\ IF ~HasTask(rt_tasks, task_name) \/ ~validate(TRUE, rt_tasks[task_name].command)
     THEN /\ rt_pc' = "finished"
          /\ rt_ret' = [kind |-> "err"]
          /\ UNCHANGED rt_spawned
     ELSE /\ rt_pc' = "running"
          /\ rt_spawned' = <<rt_tasks[task_name].command>>
          /\ UNCHANGED rt_ret
  /\ UNCHANGED <<rt_tasks, rt_strict, rt_exit, rt_stdout, rt_channel, rt_sink>>

\* the callback given to stream_output: the line is pushed to the result's
\* stdout and sent on the channel
EmitLine ==
  /\ rt_pc = "running"
  /\ Len(rt_stdout) < MaxLines
  /\ rt_stdout' = Append(rt_stdout, Len(rt_stdout) + 1)
  /\ rt_channel' = Append(rt_channel, Len(rt_stdout) + 1)
  /\ UNCHANGED <<rt_tasks, rt_strict, rt_exit, rt_entry, rt_task, rt_pc, rt_spawned, rt_ret,
                 rt_sink, rt_forwarder>>

\* stream_output returns and the tokio task ends with Ok(TaskResult)
TaskFinish ==
  /\ rt_pc = "running"
  /\ rt_pc' = "finished"
  /\ rt_ret' = [kind |-> "ok", success |-> rt_exit[rt_spawned[1]]]
  /\ UNCHANGED <<rt_tasks, rt_strict, rt_exit, rt_entry, rt_task, rt_spawned, rt_stdout,
                 rt_channel, rt_sink, rt_forwarder>>

\* output_task: rx.recv() gives a line and the handler is called with it
Forward ==
  /\ rt_forwarder = "running"
  /\ rt_channel # <<>>
  /\ rt_sink' = Append(rt_sink, Head(rt_channel))
  /\ rt_channel' = Tail(rt_channel)
  /\ UNCHANGED <<rt_tasks, rt_strict, rt_exit, rt_entry, rt_task, rt_pc, rt_spawned, rt_ret,
                 rt_stdout, rt_forwarder>>

\* output_task: every sender is dropped and the channel is empty, recv gives
\* None and the task ends
ForwarderEnd ==
  /\ rt_forwarder = "running"
  /\ rt_channel = <<>>
  /\ rt_pc \in {"finished", "done"}
  /\ rt_forwarder' = "ended"
  /\ UNCHANGED <<rt_tasks, rt_strict, rt_exit, rt_entry, rt_task, rt_pc, rt_spawned, rt_ret,
                 rt_stdout, rt_channel, rt_sink>>

\* the main task: handle.await gives the result of the package's task; an
\* Err is returned at once, after Ok(result) output_task.abort() is called
\* and, the level being the last, Ok(results) is returned
LevelFinish ==
  /\ rt_entry = "run_task_streaming"
  /\ rt_pc = "finished"
  /\ rt_pc' = "done"
  /\ rt_forwarder' = IF rt_ret.kind = "ok" /\ rt_forwarder = "running"
                     THEN "aborted" ELSE rt_forwarder
  /\ UNCHANGED <<rt_tasks, rt_strict, rt_exit, rt_entry, rt_task, rt_spawned, rt_ret,
                 rt_stdout, rt_channel, rt_sink>>

(***************************************************************************)
(* FilesystemBackend (remote_cache/filesystem.rs): upload_artifact and     *)
(* fetch_artifact of one cache key by concurrent callers                   *)
(***************************************************************************)
\* write calls that fs::write needs for one artifact
MaxWrites == 2

Uploaders == {"u1", "u2"}

\* artifact.compressed_data() of each upload, in the pieces write_all writes
CompressedData(u) ==
  [i \in 1..MaxWrites |-> [of |-> u, piece |-> i]]

\* pwrite of one piece at a position: the file grows, a gap reads as zeros
WriteAt(content, off, piece) ==
  [i \in 1..(IF off + 1 > Len(content) THEN off + 1 ELSE Len(content)) |->
     IF i = off + 1 THEN piece
     ELSE IF i <= Len(content) THEN content[i]
     ELSE [of |-> "zeros", piece |-> 0]]

\* Ok(Some(Artifact::from_compressed(data)?)): the bytes one upload wrote
\* are a whole zstd frame and parse; a file cut short or pieced together
\* from two writers is not, and zstd::decode_all fails
FetchResult(data) ==
  IF \E u \in Uploaders : data = CompressedData(u)
  THEN [kind |-> "some", data |-> data]
  ELSE [kind |-> "err", data |-> data]

FsIdle ==
  /\ fs_inodes = <<>>
  /\ fs_tmp = 0
  /\ fs_dst = 0
  /\ up_pc = [u \in Uploaders |-> "done"]
  /\ up_fd = [u \in Uploaders |-> 0]
  /\ up_off = [u \in Uploaders |-> 0]
  /\ up_ret = [u \in Uploaders |-> "none"]
  /\ fe_pc = "done"
  /\ fe_ret = [kind |-> "idle", data |-> <<>>]

\* FilesystemBackend::new has made the directory; the calls have been made
FsInit ==
  /\ fs_inodes = <<>>
  /\ fs_tmp = 0
  /\ fs_dst = 0
  /\ up_pc = [u \in Uploaders |-> "start"]
  /\ up_fd = [u \in Uploaders |-> 0]
  /\ up_off = [u \in Uploaders |-> 0]
  /\ up_ret = [u \in Uploaders |-> "none"]
  /\ fe_pc = "start"
  /\ fe_ret = [kind |-> "none", data |-> <<>>]

\* fs::write(&temp_path, ..), its open: the file is created, or the
\* existing file is truncated
UploadOpen(u) ==
  /\ up_pc[u] = "start"
  /\ IF fs_tmp = 0
     THEN /\ fs_inodes' = Append(fs_inodes, <<>>)
          /\ fs_tmp' = Len(fs_inodes) + 1
          /\ up_fd' = [up_fd EXCEPT ![u] = Len(fs_inodes) + 1]
     ELSE /\ fs_inodes' = [fs_inodes EXCEPT ![fs_tmp] = <<>>]
          /\ up_fd' = [up_fd EXCEPT ![u] = fs_tmp]
          /\ UNCHANGED fs_tmp
  /\ up_pc' = [up_pc EXCEPT ![u] = "writing"]
  /\ UNCHANGED <<fs_dst, up_off, up_ret, fe_pc, fe_ret>>

\* fs::write, one write of write_all to the open file
UploadWrite(u) ==
  /\ up_pc[u] = "writing"
  /\ fs_inodes' = [fs_inodes EXCEPT ![up_fd[u]] =
                     WriteAt(@, up_off[u], CompressedData(u)[up_off[u] + 1])]
  /\ up_off' = [up_off EXCEPT ![u] = @ + 1]
  /\ up_pc' = [up_pc EXCEPT ![u] = IF up_off[u] + 1 = MaxWrites THEN "written"
                                   ELSE "writing"]
  /\ UNCHANGED <<fs_tmp, fs_dst, up_fd, up_ret, fe_pc, fe_ret>>

\* fs::rename(&temp_path, &cache_path), and remove_file when it fails
UploadRename(u) ==
  /\ up_pc[u] = "written"
  /\ IF fs_tmp = 0
     THEN /\ up_ret' = [up_ret EXCEPT ![u] = "err"]
          /\ UNCHANGED <<fs_tmp, fs_dst>>
     ELSE /\ fs_dst' = fs_tmp
          /\ fs_tmp' = 0
          /\ up_ret' = [up_ret EXCEPT ![u] = "ok"]
  /\ up_pc' = [up_pc EXCEPT ![u] = "done"]
  /\ UNCHANGED <<fs_inodes, up_fd, up_off, fe_pc, fe_ret>>

\* fetch_artifact: `if !cache_path.exists() { return Ok(None) }`
FetchExists ==
  /\ fe_pc = "start"
  /\ IF fs_dst = 0
     THEN /\ fe_pc' = "done"
          /\ fe_ret' = [kind |-> "null", data |-> <<>>]
     ELSE /\ fe_pc' = "read"
          /\ UNCHANGED fe_ret
  /\ UNCHANGED <<fs_inodes, fs_tmp, fs_dst, up_pc, up_fd, up_off, up_ret>>

\* fetch_artifact: tokio::fs::read(&cache_path) and Artifact::from_compressed
FetchRead ==
  /\ fe_pc = "read"
  /\ fe_pc' = "done"
  /\ fe_ret' = FetchResult(fs_inodes[fs_dst])
  /\ UNCHANGED <<fs_inodes, fs_tmp, fs_dst, up_pc, up_fd, up_off, up_ret>>

(***************************************************************************)
(* TaskRunner::check_remote_cache (runner.rs) on the artifact the backend  *)
(* returns for the requested key                                           *)
(***************************************************************************)
\* CacheKey::as_string() of the fingerprints in play
KeyHashes == {"k1", "k2"}

NoLookup == [kind |-> "none"]

LookupIdle ==
  /\ lk_store = [k \in KeyHashes |-> NoArt]
  /\ lk_ret = NoLookup
  /\ lk_dir = << >>

\* the backend comes to hold, under key k, the bytes of an artifact built
\* for the fingerprint h: neither FilesystemBackend nor the client of the
\* HTTP backend looks at the artifact's metadata when storing or fetching
BackendHolds(k, h, output_files) ==
  /\ lk_ret = NoLookup
  /\ lk_store[k] = NoArt
  /\ lk_store' = [lk_store EXCEPT ![k] =
        ArtifactNew("a", "build", "m", h, output_files, 1700000000).compressed_data]
  /\ UNCHANGED <<lk_ret, lk_dir>>

\* check_remote_cache for the fingerprint k: fetch_artifact, verify(.., None),
\* extract_outputs, Ok(Some(TaskResult))
CheckRemoteCache(k) ==
  /\ lk_ret = NoLookup
  /\ IF lk_store[k] = NoArt
     THEN /\ lk_ret' = [kind |-> "miss", requested |-> k]
          /\ UNCHANGED lk_dir
     ELSE LET parsed == from_compressed(lk_store[k]) IN
          IF parsed.kind # "ok"
          THEN /\ lk_ret' = [kind |-> "err", requested |-> k]
               /\ UNCHANGED lk_dir
          ELSE IF verify(parsed.artifact, FALSE, <<>>) # "ok"
          THEN /\ lk_ret' = [kind |-> "err", requested |-> k]
               /\ UNCHANGED lk_dir
          ELSE /\ lk_dir' = extract_outputs(parsed.artifact)
               /\ lk_ret' = [kind |-> "hit", requested |-> k,
                             cache_key_hash |-> parsed.artifact.metadata.cache_key_hash]
  /\ UNCHANGED lk_store

(***************************************************************************)
(* Scanner::scan (scanner.rs) on a workspace whose descriptors and         *)
(* workspace-level tasks are edited between scans.  Each scan is made by   *)
(* a Scanner built for it, as the commands of the CLI do.                  *)
(***************************************************************************)
Revisions == {0, 1}

\* scan_internal with what it reads: each package from its polykit.toml,
\* with the workspace's tasks merged in, sorted by name
scan_packages(f, texts, workspace_tasks) ==
  LET dirs == SelectSeq(PkgDirs, LAMBDA p : f[p].present) IN
  [i \in 1..Len(dirs) |->
     [path |-> dirs[i], config |-> texts[dirs[i]], tasks |-> workspace_tasks]]

RescanIdle ==
  /\ descriptor = [p \in Range(PkgDirs) |-> 0]
  /\ ws_tasks = 0
  /\ rescan = NoScan

\* a package's polykit.toml is rewritten with another text
EditDescriptor(p) ==
  /\ workspace[p].present
  /\ workspace' = [workspace EXCEPT ![p].toml = clock]
  /\ descriptor' = [descriptor EXCEPT ![p] = 1 - @]
  /\ UNCHANGED <<clock, snapshot, seen, load_ret, scan_ret, ws_tasks, rescan>>

\* [workspace.tasks] of the polykit.toml above packages_dir is rewritten
EditWorkspaceTasks ==
  /\ ws_tasks' = 1 - ws_tasks
  /\ UNCHANGED <<workspace, clock, snapshot, seen, load_ret, scan_ret, descriptor, rescan>>

\* Scanner::with_default_cache(..).scan(): `cache.load(..)?`, and after a
\* miss scan_internal and cache.save
ScanPackages ==
  /\ LET l == CacheLoad(workspace, snapshot)
         fresh == scan_packages(workspace, descriptor, ws_tasks)
     IN /\ load_ret' = l
        /\ IF l.kind = "err"
           THEN /\ scan_ret' = [kind |-> "err"]
                /\ rescan' = [kind |-> "err"]
                /\ UNCHANGED snapshot
           ELSE IF l.kind = "hit"
           THEN /\ scan_ret' = [kind |-> "ok", packages |-> l.packages]
                /\ rescan' = [kind |-> "ok", from |-> "cache", packages |-> l.packages,
                              fresh |-> fresh]
                /\ UNCHANGED snapshot
           ELSE /\ scan_ret' = [kind |-> "ok", packages |-> fresh]
                /\ rescan' = [kind |-> "ok", from |-> "scan", packages |-> fresh,
                              fresh |-> fresh]
                /\ snapshot' = CacheSave(workspace, fresh)
  /\ seen' = [kind |-> "seen", fs |-> workspace, snapshot |-> snapshot,
              left |-> snapshot']
  /\ UNCHANGED <<workspace, clock, descriptor, ws_tasks>>

\* the variables and the rest state of the components that stand alone
xvars == <<kvars, dvars, tvars, stvars, vvars, hvars, cvars>>

XIdle == KeyIdle /\ DepIdle /\ ArtIdle /\ StreamIdle /\ ValidateIdle /\ HttpIdle /\ ScanIdle

oldvars == <<gvars, rvars, evars, svars, avars>>

OldIdle == GraphIdle /\ RunnerIdle /\ ExecOff /\ ServerOff /\ AffectedIdle

\* the components added to the model after those
yvars == <<ivars, mvars, fvars, lvars, wvars>>

YIdle == IncrIdle /\ EntryIdle /\ FsIdle /\ LookupIdle /\ RescanIdle

vars == <<gvars, rvars, evars, svars, avars, xvars, yvars>>

InitGraph == GraphIdle /\ RunnerIdle /\ ExecOff /\ ServerOff /\ AffectedIdle /\ XIdle /\ YIdle

NextGraph ==
  \/ AddPackage /\ UNCHANGED <<rvars, evars, svars, avars, xvars, yvars>>
  \/ New /\ UNCHANGED <<rvars, evars, svars, avars, xvars, yvars>>

SpecGraph == InitGraph /\ [][NextGraph]_vars

RunNames == {None} \cup {Some(S) : S \in SUBSET (AllNames \cup {UnknownDep})}

InitRun == GraphIdle /\ RunnerIdle /\ ExecOff /\ ServerOff /\ AffectedIdle /\ XIdle /\ YIdle

NextRun ==
  \/ AddPackage /\ UNCHANGED <<rvars, evars, svars, avars, xvars, yvars>>
  \/ New /\ UNCHANGED <<rvars, evars, svars, avars, xvars, yvars>>
  \/ \E names \in RunNames, threads \in 1..MaxParallel :
       run_task(names, threads) /\ UNCHANGED <<gvars, evars, svars, avars, xvars, yvars>>
  \/ \E names \in RunNames, threads \in 1..MaxParallel :
       run_task_streaming(names, threads) /\ UNCHANGED <<gvars, evars, svars, avars, xvars, yvars>>
  \/ \E p \in AllNames : StartTask(p) /\ UNCHANGED <<gvars, evars, svars, avars, xvars, yvars>>
  \/ \E p \in AllNames : ExitTask(p) /\ UNCHANGED <<gvars, evars, svars, avars, xvars, yvars>>
  \/ SingleReturn /\ UNCHANGED <<gvars, evars, svars, avars, xvars, yvars>>
  \/ LevelEnd /\ UNCHANGED <<gvars, evars, svars, avars, xvars, yvars>>
  \/ StreamLevelEnd /\ UNCHANGED <<gvars, evars, svars, avars, xvars, yvars>>
  \/ StreamReturnErr /\ UNCHANGED <<gvars, evars, svars, avars, xvars, yvars>>

SpecRun == InitRun /\ [][NextRun]_vars

\* a package whose tasks depend on each other in any way, no cache
InitTask ==
  /\ packages = <<>>
  /\ graph = NoGraph
  /\ RunnerIdle
  /\ ServerOff
  /\ AffectedIdle /\ XIdle /\ YIdle
  /\ ExecIdle
  /\ tasks \in [TaskNames ->
                  {NoTask} \cup {Task(<<"m">>, d) :
                                   d \in DistinctSeqsUpTo(TaskNames, MaxTaskDeps)}]
  /\ remote_on = FALSE
  /\ local_on = FALSE
  /\ inputs = "v1"
  /\ local_cache = [k \in LocalKeys |-> NoEntry]
  /\ remote_store = [k \in RemoteKeys |-> NoArtifact]

NextTask ==
  \/ \E t \in TaskNames : ExecuteTask(t) /\ UNCHANGED <<gvars, rvars, svars, avars, xvars, yvars>>
  \/ LoopStep /\ UNCHANGED <<gvars, rvars, svars, avars, xvars, yvars>>
  \/ Again /\ UNCHANGED <<gvars, rvars, svars, avars, xvars, yvars>>

SpecTask == InitTask /\ [][NextTask]_vars

\* a package with a build task and a test task that depends on it, under
\* every cache configuration, called again and again
InitExec ==
  /\ packages = <<>>
  /\ graph = NoGraph
  /\ RunnerIdle
  /\ ServerOff
  /\ AffectedIdle /\ XIdle /\ YIdle
  /\ ExecIdle
  /\ \E c \in {<<"m">>, <<" ">>}, withTest \in BOOLEAN :
       tasks = [t \in TaskNames |->
                  IF t = "build" THEN Task(c, <<>>)
                  ELSE IF t = "test" /\ withTest THEN Task(<<"t">>, <<"build">>)
                  ELSE NoTask]
  /\ remote_on \in BOOLEAN
  /\ local_on \in BOOLEAN
  /\ inputs = "v1"
  /\ local_cache = [k \in LocalKeys |-> NoEntry]
  /\ remote_store = [k \in RemoteKeys |-> NoArtifact]

NextExec ==
  \/ \E t \in TaskNames : ExecuteTask(t) /\ UNCHANGED <<gvars, rvars, svars, avars, xvars, yvars>>
  \/ LoopStep /\ UNCHANGED <<gvars, rvars, svars, avars, xvars, yvars>>
  \/ Again /\ UNCHANGED <<gvars, rvars, svars, avars, xvars, yvars>>
  \/ ChangeInputs /\ UNCHANGED <<gvars, rvars, svars, avars, xvars, yvars>>

SpecExec == InitExec /\ [][NextExec]_vars

\* the cache server with requests served one at a time
InitStore ==
  GraphIdle /\ RunnerIdle /\ ExecOff /\ StorageEmpty /\ overlap = FALSE /\ AffectedIdle /\ XIdle /\ YIdle

\* the cache server with requests that overlap
InitServer ==
  GraphIdle /\ RunnerIdle /\ ExecOff /\ StorageEmpty /\ overlap = TRUE /\ AffectedIdle /\ XIdle /\ YIdle

NextServer ==
  \/ \E c \in Clients, i \in StoreInputs :
       StoreArtifact(c, i[1], i[2]) /\ UNCHANGED <<gvars, rvars, evars, avars, xvars, yvars>>
  \/ \E c \in Clients, i \in UploadInputs :
       Upload(c, i[1], i[2]) /\ UNCHANGED <<gvars, rvars, evars, avars, xvars, yvars>>
  \/ \E c \in Clients : WriteTemp(c) /\ UNCHANGED <<gvars, rvars, evars, avars, xvars, yvars>>
  \/ \E c \in Clients : Rename(c) /\ UNCHANGED <<gvars, rvars, evars, avars, xvars, yvars>>
  \/ \E c \in Clients : WriteSidecar(c) /\ UNCHANGED <<gvars, rvars, evars, avars, xvars, yvars>>
  \/ \E c \in Clients, k \in LookupKeys : Download(c, k) /\ UNCHANGED <<gvars, rvars, evars, avars, xvars, yvars>>
  \/ \E c \in Clients, k \in LookupKeys : Check(c, k) /\ UNCHANGED <<gvars, rvars, evars, avars, xvars, yvars>>
  \/ CleanupTemp /\ UNCHANGED <<gvars, rvars, evars, avars, xvars, yvars>>
  \/ \E c \in Clients : Finish(c) /\ UNCHANGED <<gvars, rvars, evars, avars, xvars, yvars>>

SpecStore == InitStore /\ [][NextServer]_vars

SpecServer == InitServer /\ [][NextServer]_vars

\* a graph is built and affected_packages is called on it
InitAffected == GraphIdle /\ RunnerIdle /\ ExecOff /\ ServerOff /\ AffectedIdle /\ XIdle /\ YIdle

NextAffected ==
  \/ AddPackage /\ UNCHANGED <<rvars, evars, svars, avars, xvars, yvars>>
  \/ New /\ UNCHANGED <<rvars, evars, svars, avars, xvars, yvars>>
  \/ \E changed \in ChangedLists :
       affected_packages(changed) /\ UNCHANGED <<gvars, rvars, evars, svars, xvars, yvars>>
  \/ \E i \in 1..MaxChanged : WorkerStart(i) /\ UNCHANGED <<gvars, rvars, evars, svars, xvars, yvars>>
  \/ \E i \in 1..MaxChanged : WorkerPop(i) /\ UNCHANGED <<gvars, rvars, evars, svars, xvars, yvars>>
  \/ \E i \in 1..MaxChanged : WorkerInsert(i) /\ UNCHANGED <<gvars, rvars, evars, svars, xvars, yvars>>
  \/ AffectedReturn /\ UNCHANGED <<gvars, rvars, evars, svars, xvars, yvars>>

SpecAffected == InitAffected /\ [][NextAffected]_vars

\* two CacheKeys are built
InitKey == OldIdle /\ YIdle /\ KeyInit /\ DepIdle /\ ArtIdle /\ StreamIdle /\ ValidateIdle /\ HttpIdle /\ ScanIdle

NextKey ==
  \/ \E b \in KeyIds, n \in Range(EnvNames) : env_var(b, n) /\ UNCHANGED <<oldvars, dvars, tvars, stvars, vvars, hvars, cvars, yvars>>
  \/ \E b \in KeyIds, f \in InputFiles : input_file(b, f) /\ UNCHANGED <<oldvars, dvars, tvars, stvars, vvars, hvars, cvars, yvars>>
  \/ \E b \in KeyIds : build(b) /\ UNCHANGED <<oldvars, dvars, tvars, stvars, vvars, hvars, cvars, yvars>>

SpecKey == InitKey /\ [][NextKey]_vars

\* the key of one package and task is built on two graphs
InitDep == OldIdle /\ YIdle /\ KeyIdle /\ DepInit /\ ArtIdle /\ StreamIdle /\ ValidateIdle /\ HttpIdle /\ ScanIdle

NextDep == \E i \in GraphIds : BuildCacheKey(i) /\ UNCHANGED <<oldvars, kvars, tvars, stvars, vvars, hvars, cvars, yvars>>

SpecDep == InitDep /\ [][NextDep]_vars

\* an artifact goes from Artifact::new to the reader
InitArtifact == OldIdle /\ YIdle /\ KeyIdle /\ DepIdle /\ ArtIdle /\ StreamIdle /\ ValidateIdle /\ HttpIdle /\ ScanIdle

NextArtifact ==
  \/ \E o \in OutputMaps : CreateArtifact(o) /\ UNCHANGED <<oldvars, kvars, dvars, stvars, vvars, hvars, cvars, yvars>>
  \/ \E i \in 1..(2 + Len(PathOrder)) : DropEntry(i) /\ UNCHANGED <<oldvars, kvars, dvars, stvars, vvars, hvars, cvars, yvars>>
  \/ \E i \in 1..(2 + Len(PathOrder)), c \in Contents :
       AlterContent(i, c) /\ UNCHANGED <<oldvars, kvars, dvars, stvars, vvars, hvars, cvars, yvars>>
  \/ \E p \in OutputPaths, c \in Contents : AddEntry(p, c) /\ UNCHANGED <<oldvars, kvars, dvars, stvars, vvars, hvars, cvars, yvars>>
  \/ FromCompressed /\ UNCHANGED <<oldvars, kvars, dvars, stvars, vvars, hvars, cvars, yvars>>
  \/ Verify /\ UNCHANGED <<oldvars, kvars, dvars, stvars, vvars, hvars, cvars, yvars>>
  \/ ExtractOutputs /\ UNCHANGED <<oldvars, kvars, dvars, stvars, vvars, hvars, cvars, yvars>>

SpecArtifact == InitArtifact /\ [][NextArtifact]_vars

\* a spawned process writes and exits while stream_output reads
InitStream == OldIdle /\ YIdle /\ KeyIdle /\ DepIdle /\ ArtIdle /\ StreamInit /\ ValidateIdle /\ HttpIdle /\ ScanIdle

NextStream ==
  \/ \E s \in Streams : ProcWrite(s) /\ UNCHANGED <<oldvars, kvars, dvars, tvars, vvars, hvars, cvars, yvars>>
  \/ ProcExit /\ UNCHANGED <<oldvars, kvars, dvars, tvars, vvars, hvars, cvars, yvars>>
  \/ \E s \in Streams : PollRead(s) /\ UNCHANGED <<oldvars, kvars, dvars, tvars, vvars, hvars, cvars, yvars>>
  \/ PollWait /\ UNCHANGED <<oldvars, kvars, dvars, tvars, vvars, hvars, cvars, yvars>>

SpecStream == InitStream /\ [][NextStream]_vars

\* the same run under the runtime's scheduling: a branch of select! whose
\* future is ready is polled, so a branch that stays ready completes
StreamRest == UNCHANGED <<oldvars, kvars, dvars, tvars, vvars, hvars, cvars, yvars>>

SpecStreamFair ==
  /\ InitStream
  /\ [][NextStream]_vars
  /\ \A s \in Streams : WF_vars(PollRead(s) /\ StreamRest)
  /\ WF_vars(PollWait /\ StreamRest)

\* a command is validated
InitValidate == OldIdle /\ YIdle /\ KeyIdle /\ DepIdle /\ ArtIdle /\ StreamIdle /\ ValidateInit /\ HttpIdle /\ ScanIdle

NextValidate == Validate /\ UNCHANGED <<oldvars, kvars, dvars, tvars, stvars, hvars, cvars, yvars>>

SpecValidate == InitValidate /\ [][NextValidate]_vars

\* one operation of the HTTP backend against a server that may fail
InitHttp == OldIdle /\ YIdle /\ KeyIdle /\ DepIdle /\ ArtIdle /\ StreamIdle /\ ValidateIdle /\ HttpIdle /\ ScanIdle

NextHttp ==
  \/ \E op \in HttpOps : CallOp(op) /\ UNCHANGED <<oldvars, kvars, dvars, tvars, stvars, vvars, cvars, yvars>>
  \/ \E o \in Outcomes("fetch") : Attempt(o) /\ UNCHANGED <<oldvars, kvars, dvars, tvars, stvars, vvars, cvars, yvars>>
  \/ Sleep /\ UNCHANGED <<oldvars, kvars, dvars, tvars, stvars, vvars, cvars, yvars>>

SpecHttp == InitHttp /\ [][NextHttp]_vars

\* a workspace changes over time and is scanned again and again
InitScan ==
  OldIdle /\ YIdle /\ KeyIdle /\ DepIdle /\ ArtIdle /\ StreamIdle /\ ValidateIdle /\ HttpIdle /\ ScanIdle

NextScan ==
  \/ Tick /\ UNCHANGED <<oldvars, kvars, dvars, tvars, stvars, vvars, hvars, yvars>>
  \/ \E p \in Range(PkgDirs) : FsCreate(p) /\ UNCHANGED <<oldvars, kvars, dvars, tvars, stvars, vvars, hvars, yvars>>
  \/ \E p \in Range(PkgDirs) : FsRemove(p) /\ UNCHANGED <<oldvars, kvars, dvars, tvars, stvars, vvars, hvars, yvars>>
  \/ \E p \in Range(PkgDirs) : FsTouchToml(p) /\ UNCHANGED <<oldvars, kvars, dvars, tvars, stvars, vvars, hvars, yvars>>
  \/ \E p \in Range(PkgDirs) : FsTouchDir(p) /\ UNCHANGED <<oldvars, kvars, dvars, tvars, stvars, vvars, hvars, yvars>>
  \/ \E f \in {Damaged, EmptyFile} : DamageSnapshot(f) /\ UNCHANGED <<oldvars, kvars, dvars, tvars, stvars, vvars, hvars, yvars>>
  \/ OtherVersion /\ UNCHANGED <<oldvars, kvars, dvars, tvars, stvars, vvars, hvars, yvars>>
  \/ Scan /\ UNCHANGED <<oldvars, kvars, dvars, tvars, stvars, vvars, hvars, yvars>>

SpecScan == InitScan /\ [][NextScan]_vars

\* a graph that is built once and then updated incrementally
InitIncr == OldIdle /\ XIdle /\ IncrInit /\ EntryIdle /\ FsIdle /\ LookupIdle /\ RescanIdle

NextIncr ==
  \/ \E c \in Changes : UpdateIncremental(c) /\ UNCHANGED <<oldvars, xvars, mvars, fvars, lvars, wvars>>
  \/ \E n \in ChangeNames : AllDependents(n) /\ UNCHANGED <<oldvars, xvars, mvars, fvars, lvars, wvars>>

SpecIncr == InitIncr /\ [][NextIncr]_vars

\* one package's task through either entry point of the runner
InitEntry == OldIdle /\ XIdle /\ IncrIdle /\ EntryInit /\ FsIdle /\ LookupIdle /\ RescanIdle

NextEntry ==
  \/ \E t \in {"build", "test"} : RunTask(t) /\ UNCHANGED <<oldvars, xvars, ivars, fvars, lvars, wvars>>
  \/ \E t \in {"build", "test"} : StreamSpawn(t) /\ UNCHANGED <<oldvars, xvars, ivars, fvars, lvars, wvars>>
  \/ EmitLine /\ UNCHANGED <<oldvars, xvars, ivars, fvars, lvars, wvars>>
  \/ TaskFinish /\ UNCHANGED <<oldvars, xvars, ivars, fvars, lvars, wvars>>
  \/ Forward /\ UNCHANGED <<oldvars, xvars, ivars, fvars, lvars, wvars>>
  \/ ForwarderEnd /\ UNCHANGED <<oldvars, xvars, ivars, fvars, lvars, wvars>>
  \/ LevelFinish /\ UNCHANGED <<oldvars, xvars, ivars, fvars, lvars, wvars>>

SpecEntry == InitEntry /\ [][NextEntry]_vars

\* two uploads and one fetch of the same cache key, run concurrently
InitFs == OldIdle /\ XIdle /\ IncrIdle /\ EntryIdle /\ FsInit /\ LookupIdle /\ RescanIdle

NextFs ==
  \/ \E u \in Uploaders : UploadOpen(u) /\ UNCHANGED <<oldvars, xvars, ivars, mvars, lvars, wvars>>
  \/ \E u \in Uploaders : UploadWrite(u) /\ UNCHANGED <<oldvars, xvars, ivars, mvars, lvars, wvars>>
  \/ \E u \in Uploaders : UploadRename(u) /\ UNCHANGED <<oldvars, xvars, ivars, mvars, lvars, wvars>>
  \/ FetchExists /\ UNCHANGED <<oldvars, xvars, ivars, mvars, lvars, wvars>>
  \/ FetchRead /\ UNCHANGED <<oldvars, xvars, ivars, mvars, lvars, wvars>>

SpecFs == InitFs /\ [][NextFs]_vars

\* a lookup in a backend that holds artifacts under keys
InitLookup == OldIdle /\ XIdle /\ IncrIdle /\ EntryIdle /\ FsIdle /\ LookupIdle /\ RescanIdle

NextLookup ==
  \/ \E k \in KeyHashes, h \in KeyHashes, o \in OutputMaps :
       BackendHolds(k, h, o) /\ UNCHANGED <<oldvars, xvars, ivars, mvars, fvars, wvars>>
  \/ \E k \in KeyHashes : CheckRemoteCache(k) /\ UNCHANGED <<oldvars, xvars, ivars, mvars, fvars, wvars>>

SpecLookup == InitLookup /\ [][NextLookup]_vars

\* scans of a workspace that is edited between them
RescanRest == UNCHANGED <<oldvars, kvars, dvars, tvars, stvars, vvars, hvars,
                          ivars, mvars, fvars, lvars>>

InitRescan == OldIdle /\ XIdle /\ YIdle

NextRescan ==
  \/ Tick /\ UNCHANGED wvars /\ RescanRest
  \/ \E p \in Range(PkgDirs) : FsCreate(p) /\ UNCHANGED wvars /\ RescanRest
  \/ \E p \in Range(PkgDirs) : FsRemove(p) /\ UNCHANGED wvars /\ RescanRest
  \/ \E p \in Range(PkgDirs) : EditDescriptor(p) /\ RescanRest
  \/ EditWorkspaceTasks /\ RescanRest
  \/ ScanPackages /\ RescanRest

SpecRescan == InitRescan /\ [][NextRescan]_vars

(***************************************************************************)
(* Properties of the runner                                                *)
(***************************************************************************)
\* b is in deps(a)
DependsOn(pkgs, a, b) ==
  \E i \in 1..Len(pkgs) : pkgs[i].name = a /\ b \in Range(pkgs[i].deps)

Completed(p) == status[p] \in {"success", "failure", "hit"}

\* C1: in run_task and run_task_streaming, whenever the process of a package
\* A has been spawned, the task of every package B of the run that is in A's
\* deps has already completed (its process has exited), whatever the
\* scheduling of the workers.
C1_DepsCompleteFirst ==
  \A A \in spawned : \A B \in packages_set :
    DependsOn(packages, A, B) => Completed(B)

\* a dependent is running in the two-thread pool after its dependency's
\* process was spawned and exited
C1_Witness ==
  /\ mode = "sync"
  /\ max_parallel = 2
  /\ \E A, B \in spawned :
       /\ DependsOn(packages, A, B)
       /\ B \in packages_set
       /\ status[A] = "running"

(***************************************************************************)
(* Properties of DependencyGraph::new                                      *)
(***************************************************************************)
RECURSIVE ReachFrom(_, _)
ReachFrom(pkgs, S) ==
  LET next == S \cup {b \in NamesOf(pkgs) : \E a \in S : DependsOn(pkgs, a, b)}
  IN IF next = S THEN S ELSE ReachFrom(pkgs, next)

\* the packages reachable from a through one or more deps edges
TransitiveDeps(pkgs, a) ==
  ReachFrom(pkgs, {b \in NamesOf(pkgs) : DependsOn(pkgs, a, b)})

OnCycle(pkgs, a) == a \in TransitiveDeps(pkgs, a)

HasCycle(pkgs) == \E a \in NamesOf(pkgs) : OnCycle(pkgs, a)

MissingDeps(pkgs) ==
  {d \in UNION {Range(pkgs[i].deps) : i \in 1..Len(pkgs)} : d \notin NamesOf(pkgs)}

Occurrences(s, x) == Cardinality({i \in 1..Len(s) : s[i] = x})

\* C2: for every accepted package list, topological_order() contains every
\* package exactly once, and every dependency stands before its dependents.
C2_TopologicalOrder ==
  graph.status = "ok" =>
    LET order == graph.topological_order IN
    /\ Len(order) = Len(packages)
    /\ \A a \in NamesOf(packages) : Occurrences(order, a) = 1
    /\ \A a, b \in NamesOf(packages) :
         DependsOn(packages, a, b) => IndexOf(order, b) < IndexOf(order, a)

\* an accepted graph of three packages in which a chain of two edges exists
C2_Witness ==
  /\ graph.status = "ok"
  /\ Len(packages) = 3
  /\ \E a, b, c \in NamesOf(packages) :
       /\ a # b /\ b # c
       /\ DependsOn(packages, a, b) /\ DependsOn(packages, b, c)

LevelsOf(levels, a) == {l \in 1..Len(levels) : a \in Range(levels[l])}

\* C3: for every accepted graph, dependency_levels() places every package in
\* exactly one level (once), and no two packages of one level are joined by
\* a dependency edge.
C3_LevelsPartition ==
  graph.status = "ok" =>
    LET levels == graph.dependency_levels IN
    /\ \A a \in NamesOf(packages) :
         /\ Cardinality(LevelsOf(levels, a)) = 1
         /\ \A l \in LevelsOf(levels, a) : Occurrences(levels[l], a) = 1
    /\ \A l \in 1..Len(levels) : Range(levels[l]) \subseteq NamesOf(packages)
    /\ \A l \in 1..Len(levels) : \A a, b \in Range(levels[l]) :
         ~DependsOn(packages, a, b)

\* an accepted graph in which one package has two deps on different levels
C3_Witness ==
  /\ graph.status = "ok"
  /\ Len(graph.dependency_levels) = 3
  /\ \E i \in 1..Len(packages) : Len(packages[i].deps) = 2

\* C4 as stated: CircularDependency naming a package on a cycle whenever the
\* deps relation has a cycle, PackageNotFound whenever a dep names no package
\* of the list, success otherwise.
C4_AsStated ==
  graph.status # "none" =>
    /\ HasCycle(packages) =>
         graph.status = "CircularDependency" /\ OnCycle(packages, graph.name)
    /\ MissingDeps(packages) # {} => graph.status = "PackageNotFound"
    /\ (~HasCycle(packages) /\ MissingDeps(packages) = {}) => graph.status = "ok"

\* C4 amended: DependencyGraph::new fails with PackageNotFound (naming an
\* absent dep) whenever some dep names a package absent from the list; when
\* every dep names a package of the list and the deps relation has a cycle
\* (a self-dependency included) it fails with CircularDependency naming a
\* package that lies on a cycle; it succeeds otherwise.
C4_Errors ==
  graph.status # "none" =>
    /\ MissingDeps(packages) # {} =>
         graph.status = "PackageNotFound" /\ graph.name \in MissingDeps(packages)
    /\ (MissingDeps(packages) = {} /\ HasCycle(packages)) =>
         graph.status = "CircularDependency" /\ OnCycle(packages, graph.name)
    /\ (MissingDeps(packages) = {} /\ ~HasCycle(packages)) => graph.status = "ok"

\* a cycle through two packages is rejected while a third package is off it
C4_Witness ==
  /\ graph.status = "CircularDependency"
  /\ Len(packages) = 3
  /\ \E a \in NamesOf(packages) : ~OnCycle(packages, a)
  /\ \A a \in NamesOf(packages) : ~DependsOn(packages, a, a)

\* what the caller of run_task / run_task_streaming receives: Ok(results),
\* or an Err, which carries no TaskResult
ReturnedResults == IF outcome = "ok" THEN results ELSE <<>>

\* the task of p ran to an end and gave a TaskResult
GaveResult(p) == status[p] \in {"success", "failure", "hit"}

\* C13: at every moment of a run the number of task processes that are
\* running is at most the configured max_parallel.
C13_AsStated == Cardinality(Running) <= max_parallel

\* C12: when the call has returned, the TaskResult of every package whose
\* task ran to an end is in what the caller receives, also when the task of
\* another package raised an error.
C12_AsStated ==
  outcome # "none" =>
    \A p \in AllNames :
      GaveResult(p) =>
        \E i \in 1..Len(ReturnedResults) : ReturnedResults[i].package_name = p

(***************************************************************************)
(* Properties of execute_task_internal and the two caches                  *)
(***************************************************************************)
LocalErrors == {"io_error", "decode_error"}

Called == last_call.task # "none"

ReturnedFrom(source) ==
  last_call.ret.kind = "ok" /\ last_call.ret.result.source = source

FailedWith(origin) ==
  last_call.ret.kind = "err" /\ last_call.ret.origin = origin

\* C5: a failure of the local task cache or of the remote cache during a
\* lookup is never what execute_task_internal returns: unless the local
\* cache answers, the command is run (when it passes validation) and its
\* outcome is returned.
C5_AsStated ==
  Called /\ (last_call.local \in LocalErrors \/ last_call.remote \in RemoteErrors) =>
    /\ ~FailedWith("task_cache")
    /\ ~FailedWith("remote_cache")
    /\ last_call.local # "hit" /\ validate(TRUE, tasks[last_call.task].command) =>
         "spawn" \in Range(last_call.events)

\* C6: a result returned from the local task cache was stored by an
\* invocation with the same fingerprint: same package, task and command, and
\* the same env values, input file hashes, dependency hash and toolchain.
C6_AsStated ==
  Called /\ ReturnedFrom("local") =>
    /\ last_call.ret.result.task_name = last_call.task
    /\ last_call.ret.result.inputs = last_call.inputs

\* the last call ran the command and the command exited unsuccessfully
FailedRun ==
  Called /\ last_call.spawned /\ ReturnedFrom("run") /\ ~last_call.ret.result.success

\* C7: no entry of the local task cache and no artifact of the remote cache
\* comes from a failed run, a failed run leaves its own cache key without an
\* entry, and no cache lookup returns an unsuccessful result.
C7_FailedRunNotCached ==
  /\ \A k \in LocalKeys : local_cache[k].present => local_cache[k].success
  /\ \A k \in RemoteKeys : remote_store[k].present => remote_store[k].success
  /\ FailedRun /\ local_on =>
       ~local_cache[cache_key(PackageName, last_call.task,
                              tasks[last_call.task].command)].present
  /\ Called /\ (ReturnedFrom("local") \/ ReturnedFrom("remote")) =>
       last_call.ret.result.success

\* build ran and failed with both caches on, and test was looked up after it
C7_Witness ==
  /\ local_on /\ remote_on
  /\ Len(exec_results) = 2
  /\ exec_results[1].source = "run" /\ ~exec_results[1].success
  /\ last_call.task = "test" /\ last_call.local = "miss" /\ last_call.remote = "miss"

StageRank(e) == IF e = "remote" THEN 1 ELSE IF e = "local" THEN 2 ELSE 3

InOrder(ev) == \A i, j \in 1..Len(ev) : i < j => StageRank(ev[i]) < StageRank(ev[j])

\* C8: in every call the remote cache is asked first when configured, then
\* the local cache when configured, and the process is spawned only when
\* neither gave a hit; a hit in either returns without spawning.
C8_LookupOrder ==
  Called =>
    /\ InOrder(last_call.events)
    /\ remote_on => last_call.events # <<>> /\ Head(last_call.events) = "remote"
    /\ ~remote_on => "remote" \notin Range(last_call.events)
    /\ local_on /\ last_call.remote # "hit" => "local" \in Range(last_call.events)
    /\ ~local_on => "local" \notin Range(last_call.events)
    /\ "spawn" \in Range(last_call.events) =>
         last_call.remote # "hit" /\ last_call.local \in {"off", "miss"}
    /\ last_call.remote = "hit" \/ last_call.local = "hit" =>
         /\ "spawn" \notin Range(last_call.events)
         /\ ~last_call.spawned
         /\ last_call.ret.kind = "ok" /\ last_call.ret.result.source # "run"

\* both caches missed and the process was spawned, in that order
C8_Witness ==
  /\ remote_on /\ local_on
  /\ last_call.events = <<"remote", "local", "spawn">>
  /\ last_call.remote = "miss" /\ last_call.local = "miss"

\* C9: when the remote lookup fails (fingerprint, network, parsing,
\* verification or extraction), the call goes on to the local cache and,
\* unless that answers, to the command; the failure is returned neither as a
\* remote hit nor as the task's error.
C9_RemoteFailureIsMiss ==
  Called /\ last_call.remote \in RemoteErrors =>
    /\ ~ReturnedFrom("remote")
    /\ ~FailedWith("remote_cache")
    /\ local_on => "local" \in Range(last_call.events)
    /\ ~local_on => last_call.local = "off"
    /\ last_call.local \in {"off", "miss"}
         /\ validate(TRUE, tasks[last_call.task].command) =>
         "spawn" \in Range(last_call.events)

\* the artifact was fetched but could not be extracted, the local cache
\* missed, and the command ran
C9_Witness ==
  /\ local_on
  /\ last_call.remote = "extract_error"
  /\ last_call.local = "miss"
  /\ last_call.spawned

(***************************************************************************)
(* Properties of execute_task                                              *)
(***************************************************************************)
TaskDeps(t) == IF HasTask(tasks, t) THEN Range(tasks[t].depends_on) ELSE {}

RECURSIVE TaskClosure(_)
TaskClosure(S) ==
  LET n == S \cup UNION {TaskDeps(x) : x \in S}
  IN IF n = S THEN S ELSE TaskClosure(n)

\* t and the transitive depends_on prerequisites of t
WithPrerequisites(t) == TaskClosure({t})

TaskOnCycle(t) == t \in TaskClosure(TaskDeps(t))

CycleReachable(t) == \E u \in WithPrerequisites(t) : TaskOnCycle(u)

\* every depends_on name reachable from t is a task of the package
DependsOnResolved(t) == \A u \in WithPrerequisites(t) : HasTask(tasks, u)

PrerequisiteFailedAt(i) ==
  /\ i \in 1..Len(exec_results)
  /\ exec_results[i].task_name # target
  /\ ~exec_results[i].success

\* C11: when a prerequisite of T exits unsuccessfully nothing is run after
\* it, neither a later prerequisite nor T, and what execute_task returns is
\* not a successful result.
C11_AsStated ==
  \A i \in 1..Len(exec_results) :
    PrerequisiteFailedAt(i) =>
      /\ Len(executed) = i
      /\ ~(ret.kind = "ok" /\ ret.result.success)

(***************************************************************************)
(* Properties of the cache server                                          *)
(***************************************************************************)
\* the request of c has ended and store_artifact was called in it
StoreCalled(c) ==
  /\ requests[c].pc = "done"
  /\ requests[c].op \in {"STORE", "PUT"}
  /\ requests[c].result # "rejected"

\* read_artifact(k) gives the bytes of the first store that returned Ok
ReadsFirstStored ==
  \A k \in Keys :
    first_stored[k].present =>
      read_artifact(files, k) = [kind |-> "ok", data |-> first_stored[k].data]

\* C14 as stated: a store_artifact for K that starts after one for K has
\* returned Ok returns the already-exists error whatever its payload, and
\* read_artifact(K) gives the first-stored bytes.
C14_AsStated ==
  /\ \A c \in Clients :
       StoreCalled(c) /\ requests[c].after_ok => requests[c].result = "already_exists"
  /\ ReadsFirstStored

\* C14: a store_artifact for K that starts after one for K has returned Ok
\* never returns Ok: it returns the already-exists error, or the size error
\* when its payload is longer than max_artifact_size (checked first); and
\* read_artifact(K) gives the first-stored bytes.
C14_Immutable ==
  /\ \A c \in Clients :
       StoreCalled(c) /\ requests[c].after_ok =>
         requests[c].result =
           IF requests[c].data.oversize THEN "too_large" ELSE "already_exists"
  /\ ReadsFirstStored

\* a second store for the key, with another payload, was turned away
C14_Witness ==
  \E c \in Clients :
    /\ StoreCalled(c) /\ requests[c].after_ok
    /\ requests[c].op = "STORE"
    /\ requests[c].result = "already_exists"
    /\ requests[c].data # first_stored[requests[c].key].data

\* C15: of the stores for one key at most one returns Ok, and the artifact
\* file first renamed into place is the file that stays.
C15_AsStated ==
  \A k \in Keys :
    /\ stores_ok[k] <= 1
    /\ committed[k].present => files[k] = committed[k]

\* the request of c was a PUT whose URL key is not the artifact's
\* cache_key_hash, and it has been answered
MismatchedPut(c) ==
  /\ requests[c].pc = "done"
  /\ requests[c].op = "PUT"
  /\ requests[c].data.cache_key_hash # requests[c].key.id

\* the PUT of c never reached store_artifact, and its URL key holds nothing
StoredNothing(c) ==
  /\ requests[c].result = "rejected"
  /\ ~files[requests[c].key].present
  /\ ~sidecars[requests[c].key].present

ValidPutStarts(c) ==
  /\ requests[c].pc = "idle"
  /\ requests'[c].op = "PUT"
  /\ WellFormed(requests'[c].key)
  /\ verify_upload(requests'[c].data, requests'[c].key) = "ok"

\* C17: a PUT of a valid artifact to a key whose artifact file exists is
\* answered 409 in a step that changes neither the artifact file nor the
\* sidecar; and a PUT that is answered 201 found no artifact file for its
\* key when it started.
C17_ConflictRejected ==
  /\ [][\A c \in Clients :
          ValidPutStarts(c) /\ files[requests'[c].key].present =>
            /\ requests'[c].pc = "done"
            /\ requests'[c].resp.status = 409
            /\ files' = files
            /\ sidecars' = sidecars]_vars
  /\ [](\A c \in Clients :
          requests[c].op = "PUT" /\ requests[c].resp.status = 201 =>
            ~requests[c].existed)

\* a valid artifact with other bytes was PUT to a key that was taken
C17_Witness ==
  \E c \in Clients :
    /\ requests[c].pc = "done" /\ requests[c].op = "PUT"
    /\ requests[c].existed
    /\ requests[c].resp.status = 409
    /\ files[requests[c].key].data # requests[c].data
    /\ sidecars[requests[c].key].present

\* C18: for every well-formed key, in every state of the storage, GET and
\* HEAD both answer 200 with X-Artifact-Hash when the artifact file of the
\* key exists and both answer 404 when it does not.
C18_AsStated ==
  \A k \in Keys :
    WellFormed(k) =>
      LET g == download_artifact(files, sidecars, k)
          h == check_artifact(files, sidecars, k)
      IN /\ g.status = h.status
         /\ g.status = IF has_artifact(files, k) THEN 200 ELSE 404
         /\ g.status = 200 => g.hash = h.hash

(***************************************************************************)
(* Properties of DependencyGraph::affected_packages                        *)
(***************************************************************************)
\* the packages that depend on x through one or more deps edges
TransitiveDependents(pkgs, x) ==
  {a \in NamesOf(pkgs) : x \in TransitiveDeps(pkgs, a)}

\* the changed packages together with all of their transitive dependents
ExpectedAffected(pkgs, changed) ==
  Range(changed) \cup UNION {TransitiveDependents(pkgs, x) : x \in Range(changed)}

AffectedReturned == affected_ret # NoCallYet

\* C19: for every graph and every list of changed packages contained in it,
\* affected_packages returns exactly the changed packages together with all
\* of their transitive dependents, whatever the order in which the parallel
\* workers reached the shared result set.
C19_ExactlyDependents ==
  (AffectedReturned /\ Range(changed_packages) \subseteq NamesOf(graph.packages))
    => /\ affected_ret.kind = "ok"
       /\ affected_ret.set = ExpectedAffected(graph.packages, changed_packages)

\* two workers have run, one of them lost the insertion of a dependent to the
\* other one, and the set returned has a package that was not in the list
C19_Witness ==
  /\ AffectedReturned
  /\ Len(changed_packages) = 2
  /\ Range(changed_packages) \subseteq NamesOf(graph.packages)
  /\ \E i, j \in 1..Len(workers) :
       /\ i # j
       /\ \E d \in workers[i].local_visited :
            /\ d \notin Range(changed_packages)
            /\ d \in TransitiveDependents(graph.packages, changed_packages[j])
            /\ d \notin workers[j].local_visited

\* C20: affected_packages returns an error if any of the changed names is not
\* a package of the graph, and a set it returns holds names of packages only.
C20_AsStated ==
  AffectedReturned =>
    /\ (Range(changed_packages) \subseteq NamesOf(graph.packages)
          \/ affected_ret.kind = "err")
    /\ (affected_ret.kind = "ok" => affected_ret.set \subseteq NamesOf(graph.packages))

(***************************************************************************)
(* Properties of CacheKey::hash                                            *)
(***************************************************************************)
\* the inputs a key was built from, whatever the order of the insertions
KeyInputs(b) ==
  << builders[b].package_id, builders[b].task_name, builders[b].command,
     builders[b].env_vars, MapContents(builders[b].input_file_hashes),
     builders[b].dependency_graph_hash, builders[b].toolchain_version >>

BothBuilt == \A b \in KeyIds : key_hash[b] # NoHash

\* C21: two CacheKeys built from equal inputs have the same hash(), whatever
\* the order in which the env vars and the input file hashes were inserted.
C21_AsStated ==
  (BothBuilt /\ KeyInputs(1) = KeyInputs(2)) => key_hash[1] = key_hash[2]

(***************************************************************************)
(* Properties of build_cache_key's dependency graph hash                   *)
(***************************************************************************)
BothKeysBuilt == \A i \in GraphIds : dep_keys[i].built

\* C22: whenever the set of transitive dependencies of the package differs
\* between the two graphs, the two keys have different dependency_graph_hash
\* values and different fingerprints.
C22_AsStated ==
  (BothKeysBuilt /\ TransitiveDeps(dep_graphs[1].packages, dep_package)
                      # TransitiveDeps(dep_graphs[2].packages, dep_package))
    => /\ dep_keys[1].key.dependency_graph_hash # dep_keys[2].key.dependency_graph_hash
       /\ CacheKeyHash(dep_keys[1].key) # CacheKeyHash(dep_keys[2].key)

(***************************************************************************)
(* Properties of ArtifactVerifier::verify                                  *)
(***************************************************************************)
\* the entries under outputs/ of the archive the reader holds
OutputEntries ==
  LET tar == ZstdDecode(art_data) IN
  {[relative_path |-> StripOutputs(tar[i].path).relative_path, content |-> tar[i].content] :
     i \in {j \in 1..Len(tar) : StripOutputs(tar[j].path).ok}}

ManifestFiles == art_parsed.artifact.manifest.files

EntryNotInManifest == \E e \in OutputEntries : e.relative_path \notin DOMAIN ManifestFiles

ManifestFileNotInTar ==
  \E p \in DOMAIN ManifestFiles : \A e \in OutputEntries : e.relative_path # p

EntryHashDiffers ==
  \E e \in OutputEntries :
    /\ e.relative_path \in DOMAIN ManifestFiles
    /\ Sha256Hex(e.content) # ManifestFiles[e.relative_path]

\* C23: verify fails whenever the outputs/ entries and the manifest disagree:
\* an entry that is absent from the manifest, a manifest file that is missing
\* from the tar, or an entry whose SHA-256 differs from its manifest hash.
C23_AsStated ==
  (art_verify # NoArt /\ (EntryNotInManifest \/ ManifestFileNotInTar \/ EntryHashDiffers))
    => art_verify.kind # "ok"

(***************************************************************************)
(* Properties of the Artifact round trip                                   *)
(***************************************************************************)
Untouched == art_tampers = 0

\* C29: re-parsing the compressed bytes of an Artifact created from (package,
\* task, command, key, outputs) yields an artifact whose metadata and manifest
\* equal the original's, and extract_outputs writes exactly the original file
\* tree: the same relative paths with the same bytes and nothing else.
C29_RoundTrip ==
  /\ (art_parsed # NoArt /\ Untouched) =>
       /\ art_parsed.kind = "ok"
       /\ art_parsed.artifact.metadata = art_created.metadata
       /\ art_parsed.artifact.manifest = art_created.manifest
  /\ (art_tree # NoArt /\ Untouched) =>
       /\ DOMAIN art_tree.files = DOMAIN art_input.output_files
       /\ \A p \in DOMAIN art_tree.files : art_tree.files[p] = art_input.output_files[p]

\* an artifact of two files, one of them in a subdirectory, was re-parsed and
\* extracted as it was created
C29_Witness ==
  /\ Untouched
  /\ art_parsed.kind = "ok"
  /\ art_tree # NoArt
  /\ DOMAIN art_input.output_files = OutputPaths
  /\ DOMAIN art_tree.files = OutputPaths

(***************************************************************************)
(* Properties of stream_output                                             *)
(***************************************************************************)
\* the lines of a stream: the pieces between line feeds, the last one without
RECURSIVE LinesOf(_)
LinesOf(s) ==
  IF s = <<>> THEN <<>>
  ELSE LET n == FirstLF(s) IN
       IF n = 0 THEN <<s>>
       ELSE <<SubSeq(s, 1, n - 1)>> \o LinesOf(SubSeq(s, n + 1, Len(s)))

\* the lines the process wrote to s that are not empty, without the white
\* space at their end
NonEmptyLines(s) ==
  LET trimmed == [i \in 1..Len(LinesOf(written[s])) |-> TrimEnd(LinesOf(written[s])[i])]
  IN SelectSeq(trimmed, LAMBDA l : l # <<>>)

\* the lines the sink got for s
SinkLines(s) ==
  LET mine == SelectSeq(sink, LAMBDA c : c[2] = (s = "stderr"))
  IN [i \in 1..Len(mine) |-> mine[i][1]]

\* C24: for each of stdout and stderr the sink gets exactly the non-empty
\* lines the process wrote to that stream, in the order they were written,
\* none lost, duplicated or split, for every interleaving of the two readers
\* and the exit of the process.
C24_AsStated ==
  stream_ret => \A s \in Streams : SinkLines(s) = NonEmptyLines(s)

(***************************************************************************)
(* Properties of CommandValidator::validate                                *)
(***************************************************************************)
\* C30: validate rejects every command that, after its outer white space is
\* trimmed, contains a CR or an LF.
C30_AsStated ==
  v_result = "ok" => /\ ~Contains(Trim(v_command), "LF")
                     /\ ~Contains(Trim(v_command), "CR")

(***************************************************************************)
(* Properties of HttpBackend::retry                                        *)
(***************************************************************************)
\* C25: against a server that keeps failing, an operation makes at most 3
\* http_requests, waits 100 ms before the second and 200 ms before the third, and
\* then returns the last error.
C25_AsStated ==
  (\A i \in 1..Len(http_requests) : ~IsOk(http_requests[i])) =>
     /\ Len(http_requests) <= 3
     /\ Len(http_requests) >= 2 => sleeps[1] = 100
     /\ Len(http_requests) >= 3 => sleeps[2] = 200
     /\ http_ret.kind = "err" => Len(http_requests) = 3 /\ http_ret.error = Last(http_requests)

(***************************************************************************)
(* Properties of Cache::load and Scanner::scan                             *)
(***************************************************************************)
\* the current mtime of the file or directory a recorded key stands for
CurrentMtime(f, key) ==
  IF ~f[key[1]].present THEN 0
  ELSE IF key = DirKey(key[1]) THEN f[key[1]].dir ELSE f[key[1]].toml

\* the three conditions for an entry and a workspace
SnapshotValid(f, entry) ==
  /\ entry.version = 3
  /\ entry.mtimes[package_count_key] = Cardinality({p \in Range(PkgDirs) : f[p].present})
  /\ \A key \in DOMAIN entry.mtimes \ {package_count_key} :
       entry.mtimes[key] = CurrentMtime(f, key)

SeenDecodes == seen.snapshot.kind = "zstd"

\* the file as scan leaves it after a miss
Rewritten ==
  /\ seen.left.kind = "zstd"
  /\ seen.left.bincode.version = 3
  /\ seen.left.bincode.packages = scan_ret.packages
  /\ SnapshotValid(seen.fs, seen.left.bincode)

\* C26 as stated: load returns the cached package list exactly when the three
\* conditions hold; in every other case the load is a miss, not an error, and
\* scan rewrites the snapshot after the full scan.
C26_AsStated ==
  load_ret # NoScan =>
    IF SeenDecodes /\ SnapshotValid(seen.fs, seen.snapshot.bincode)
    THEN load_ret = [kind |-> "hit", packages |-> seen.snapshot.bincode.packages]
    ELSE load_ret.kind = "miss" /\ Rewritten

\* C26: for a file that is absent, empty or decodes, load returns the cached
\* package list exactly when the three conditions hold and is a miss
\* otherwise, and after a miss scan rewrites the snapshot; a file that does
\* not decode is an error of load and of scan, and is left as it is.
C26_LoadValidates ==
  load_ret # NoScan =>
    IF ~SeenDecodes /\ seen.snapshot.kind \notin {"absent", "empty"}
    THEN load_ret.kind = "err" /\ scan_ret.kind = "err" /\ seen.left = seen.snapshot
    ELSE IF SeenDecodes /\ SnapshotValid(seen.fs, seen.snapshot.bincode)
    THEN /\ load_ret = [kind |-> "hit", packages |-> seen.snapshot.bincode.packages]
         /\ scan_ret = [kind |-> "ok", packages |-> seen.snapshot.bincode.packages]
    ELSE load_ret.kind = "miss" /\ Rewritten

\* a snapshot of one package was loaded after a second package had appeared
\* while every recorded mtime was still the current one: a miss, and the file
\* was rewritten for two packages
C26_Witness ==
  /\ load_ret.kind = "miss"
  /\ SeenDecodes
  /\ seen.snapshot.bincode.version = 3
  /\ Len(seen.snapshot.bincode.packages) = 1
  /\ \A key \in DOMAIN seen.snapshot.bincode.mtimes \ {package_count_key} :
       seen.snapshot.bincode.mtimes[key] = CurrentMtime(seen.fs, key)
  /\ seen.left.kind = "zstd"
  /\ Len(seen.left.bincode.packages) = 2

(***************************************************************************)
(* Properties of TaskCache::put followed by TaskCache::get                 *)
(***************************************************************************)
\* C27 as stated: every file TaskCache::put wrote for a successful result,
\* whatever the size and compressibility of the output, is read by
\* TaskCache::get with the codec it was written with, and a get with the
\* package, task and command of the put is a hit that returns the result.
C27_AsStated ==
  \A k \in LocalKeys : local_cache[k].present =>
    LET e == local_cache[k] IN
    /\ GetCodec(e.file_len) = e.codec
    /\ TaskCacheGet(local_cache, e.package_name, e.task_name, e.command, TRUE) = "hit"

(***************************************************************************)
(* Properties of dependency_levels(): the level of each package            *)
(***************************************************************************)
DepsOf(pkgs, a) == Range(pkgs[CHOOSE i \in 1..Len(pkgs) : pkgs[i].name = a].deps)

\* the length of the longest dependency path from a package to a leaf
RECURSIVE LongestPath(_, _)
LongestPath(pkgs, a) ==
  IF DepsOf(pkgs, a) = {} THEN 0
  ELSE 1 + Max({LongestPath(pkgs, d) : d \in DepsOf(pkgs, a)})

\* the level dependency_levels() gives a package
LevelIn(levels, a) == (CHOOSE l \in 1..Len(levels) : a \in Range(levels[l])) - 1

\* C28: for every accepted graph, dependency_levels() gives level 0 to every
\* package with no deps and to every other package 1 + the highest level of
\* its deps, so level k holds exactly the packages whose longest dependency
\* path to a leaf has length k.
C28_LevelIsDepth ==
  graph.status = "ok" =>
    LET levels == graph.dependency_levels IN
    /\ \A a \in NamesOf(packages) :
         /\ \E l \in 1..Len(levels) : a \in Range(levels[l])
         /\ LevelIn(levels, a) =
              IF DepsOf(packages, a) = {} THEN 0
              ELSE 1 + Max({LevelIn(levels, d) : d \in DepsOf(packages, a)})
    /\ \A k \in 1..Len(levels) :
         Range(levels[k]) = {a \in NamesOf(packages) : LongestPath(packages, a) = k - 1}

\* an accepted graph in which a package on level 2 depends both on a package
\* of level 0 and on a package of level 1
C28_Witness ==
  /\ graph.status = "ok"
  /\ \E a, b, c \in NamesOf(packages) :
       /\ {b, c} \subseteq DepsOf(packages, a)
       /\ b \in Range(graph.dependency_levels[1])
       /\ c \in Range(graph.dependency_levels[2])
       /\ a \in Range(graph.dependency_levels[3])

(***************************************************************************)
(* Properties of update_incremental and all_dependents                     *)
(***************************************************************************)
\* a mix of removed, modified and added packages that fits the package set:
\* removed and modified packages exist, added packages are new
ProperChange(set, c) ==
  /\ Range(c.removed) \subseteq DOMAIN set
  /\ \A i \in 1..Len(c.modified) : c.modified[i].name \in DOMAIN set \ Range(c.removed)
  /\ \A i \in 1..Len(c.added) : c.added[i].name \notin DOMAIN set

ClosedUnderDeps(set) == \A nm \in DOMAIN set : Range(set[nm]) \subseteq DOMAIN set

RECURSIVE DepsClosure(_, _)
DepsClosure(set, S) ==
  LET T == S \cup UNION {Range(set[nm]) : nm \in S}
  IN IF T = S THEN S ELSE DepsClosure(set, T)

AcyclicSet(set) == \A nm \in DOMAIN set : nm \notin DepsClosure(set, Range(set[nm]))

\* the longest dependency path from a package of an acyclic set
RECURSIVE DepthIn(_, _)
DepthIn(set, nm) ==
  IF set[nm] = <<>> THEN 0
  ELSE 1 + Max({DepthIn(set, d) : d \in Range(set[nm])})

\* dependencies() and dependents() give the edges of the package set
SameEdges(g, set) ==
  \A nm \in DOMAIN set :
    /\ neighbors_by_name(g, nm, TRUE).ok
    /\ Range(neighbors_by_name(g, nm, TRUE).names) = Range(set[nm])
    /\ neighbors_by_name(g, nm, FALSE).ok
    /\ Range(neighbors_by_name(g, nm, FALSE).names) = {m \in DOMAIN set : nm \in Range(set[m])}

\* topological_order() lists every package once, each after its deps
ValidOrder(g, set) ==
  LET order == IdsToNamesOf(g, g.cached_topological_order) IN
  /\ Range(order) = DOMAIN set
  /\ NoDup(order)
  /\ \A nm \in DOMAIN set : \A d \in Range(set[nm]) : IndexOf(order, d) < IndexOf(order, nm)

\* dependency_levels() is the level partition DependencyGraph::new gives
SameLevels(g, set) ==
  LET levels == [l \in 1..Len(g.dependency_levels) |-> IdsToNamesOf(g, g.dependency_levels[l])] IN
  /\ \A nm \in DOMAIN set : DepthIn(set, nm) < Len(levels)
  /\ \A l \in 1..Len(levels) :
       /\ NoDup(levels[l])
       /\ Range(levels[l]) = {nm \in DOMAIN set : DepthIn(set, nm) = l - 1}

\* C31 as stated: after update_incremental returns Ok for a mix of added,
\* modified and removed packages whose resulting package set is acyclic and
\* closed under deps, dependencies(), dependents(), topological_order() and
\* dependency_levels() describe the edges, a dependencies-first order and the
\* level partition of the resulting package set.
C31_AsStated ==
  /\ last_update.kind = "update"
  /\ last_update.ret = "ok"
  /\ ProperChange(last_update.set_before, last_update.changes)
  /\ ClosedUnderDeps(ApplyChange(last_update.set_before, last_update.changes))
  /\ AcyclicSet(ApplyChange(last_update.set_before, last_update.changes))
  => LET after == ApplyChange(last_update.set_before, last_update.changes) IN
     /\ SameEdges(last_update.graph_after, after)
     /\ ValidOrder(last_update.graph_after, after)
     /\ SameLevels(last_update.graph_after, after)

\* C32 as stated: all_dependents(p) returns the transitive dependents of p in
\* the edges the graph has at the moment of the call, also when a result for
\* p was memoised before an update.
C32_AsStated ==
  ad_ret.kind = "called" => ad_ret.ret = ad_ret.fresh

\* what a caller can see of the graph: packages, edges, order and levels
GraphView(g) ==
  [packages |-> [nm \in DOMAIN g.name_to_node |->
                   IF nm \in DOMAIN g.name_to_id THEN g.packages[g.name_to_id[nm]] ELSE <<>>],
   edges |-> {<<g.id_to_name[g.pg.nodes[g.pg.edges[i][1]]],
                g.id_to_name[g.pg.nodes[g.pg.edges[i][2]]]>> : i \in 1..Len(g.pg.edges)},
   topological_order |-> IdsToNamesOf(g, g.cached_topological_order),
   dependency_levels |->
     [l \in 1..Len(g.dependency_levels) |-> IdsToNamesOf(g, g.dependency_levels[l])]]

\* C39 as stated: when update_incremental returns an error the graph is as
\* it was before the call: same packages, same edges, same topological
\* order and same levels.
C39_AsStated ==
  /\ last_update.kind = "update"
  /\ last_update.ret \in {"CircularDependency", "PackageNotFound"}
  => GraphView(last_update.graph_after) = GraphView(last_update.graph_before)

(***************************************************************************)
(* Properties of run_task_streaming against run_task                       *)
(***************************************************************************)
StreamingReturned == rt_entry = "run_task_streaming" /\ rt_pc = "done"

\* C33 as stated: for the same package and task, run_task_streaming executes
\* the commands run_task executes, the depends_on prerequisites in order
\* before the task itself, and returns a TaskResult with the same success.
C33_AsStated ==
  StreamingReturned =>
    LET r == execute_task(rt_tasks, rt_strict, rt_exit, rt_task) IN
    /\ rt_spawned = r.spawned
    /\ rt_ret.kind = r.kind
    /\ r.kind = "ok" => rt_ret.success = r.success

\* C34 as stated: when run_task_streaming returns Ok, every line of the
\* returned TaskResult's stdout has been passed to on_output.
C34_AsStated ==
  StreamingReturned /\ rt_ret.kind = "ok" => rt_sink = rt_stdout

ShellFeature(command) ==
  \/ Contains(command, ";")
  \/ ContainsPair(command, "&", "&")
  \/ ContainsPair(command, "|", "|")
  \/ Contains(command, "|")
  \/ Contains(command, "BACKTICK")
  \/ Contains(command, "$")

\* C36 as stated: a runner configured with a strict CommandValidator spawns
\* no command that contains ;, &&, ||, |, a backtick or $, through run_task
\* or through run_task_streaming.
C36_AsStated ==
  rt_strict => \A i \in 1..Len(rt_spawned) : ~ShellFeature(rt_spawned[i])

\* a branch of select! whose precondition holds
BranchEnabled == ~exit_status \/ \E s \in Streams : ~stream_done[s]

\* end of file on a stream and the exit are observed only once they happened
ObservedHappened ==
  /\ exit_status => exited
  /\ \A s \in Streams : stream_done[s] => exited /\ script[s] = <<>> /\ pipe[s] = <<>>

C37_AsStated ==
  fe_pc = "done" /\ fe_ret.kind # "idle" =>
    \/ fe_ret.kind = "null"
    \/ fe_ret.kind = "some" /\ \E u \in Uploaders : fe_ret.data = CompressedData(u)

\* C40 as stated: check_remote_cache reports a hit, and extracts outputs,
\* only for an artifact whose cache_key_hash is the fingerprint requested;
\* a consistent artifact of another key is a miss.
C40_AsStated ==
  /\ lk_ret.kind = "hit" => lk_ret.cache_key_hash = lk_ret.requested
  /\ lk_ret.kind \in {"miss", "err"} => lk_dir = << >>
  /\ lk_ret.kind # "none" /\ lk_store[lk_ret.requested] # NoArt
       /\ from_compressed(lk_store[lk_ret.requested]).artifact.metadata.cache_key_hash
            # lk_ret.requested
     => lk_ret.kind = "miss"

\* C38 as stated: after any edits of the workspace interleaved with scans,
\* Scanner::scan() with a scan cache returns the package list a scanner
\* without a cache returns at that moment.
C38_AsStated ==
  rescan.kind = "ok" => rescan.packages = rescan.fresh

====
